---------------------------- MODULE Spec2Model ----------------------------
(***************************************************************************)
(* StreamingUploader (src/unrealon/parsers/upload.py) as a state machine.  *)
(*                                                                         *)
(* Threads of the program:                                                 *)
(*   - client threads, which call the public methods add_existing_ids,     *)
(*     upload_batch, finish and abort;                                     *)
(*   - dispatcher threads, the threading.Thread objects created by         *)
(*     _start_upload_thread, each running _upload_worker;                  *)
(*   - the pool threads of the ThreadPoolExecutor that _upload_batch_sync  *)
(*     creates for one batch, each running _upload_one for one record.     *)
(* Every action is one atomic step of one thread: at most one access to a  *)
(* shared field of the uploader, to the queue or to a thread object.       *)
(***************************************************************************)
EXTENDS Integers, Sequences, FiniteSets, TLC

\* ---------------------------------------------------------------- bounds
NumIds == 3
MaxLen == 3
MaxCalls == 2
MaxShutdowns == 2
MaxSeeds == 1
MaxWorkers == 2
RaceCalls == 2
FifoCalls == 3
MaxItems == 3       \* elements of the sequence handed to TaskRunner.iterate
MaxCommands == 3    \* pause / resume / stop commands in one behaviour
MaxPages == 2       \* listing pages (API parser) or listed items (browser parser)
BatchSize == 2      \* the parser subclass's UPLOAD_BATCH_SIZE
MaxBatch == 3       \* largest UPLOAD_BATCH_SIZE of the buffer runs
MaxPad == 100       \* characters in front of the tail of an error message

\* ------------------------------------------------------ program constants
MAX_RETRIES == 3
RETRY_DELAY == 2
ERROR_CHARS == 100

Ids == 1 .. NumIds
Clients == {"c1", "c2"}
Threads == {"t1", "t2"}
NoThread == "None"
Sentinel == [items |-> <<>>, page |-> 0]

\* ----------------------------------------------------- the upload function
(* An error message is a sequence of characters.  The messages the model's  *)
(* upload function raises: "503", "x504", "404", "timeout".                 *)
Msg503 == <<"5", "0", "3">>
Msg504 == <<"x", "5", "0", "4">>
Msg404 == <<"4", "0", "4">>
MsgNone == <<>>

IsInfix(sub, s) ==
    \E k \in 0 .. (Len(s) - Len(sub)) :
        \A j \in 1 .. Len(sub) : s[k + j] = sub[j]

Truncate(s, n) == IF Len(s) <= n THEN s ELSE SubSeq(s, 1, n)

\* line 160-162: last_error = str(e)[:100]; "502" in ... or "503" ... or "504"
IsTransient(msg) ==
    LET last_error == Truncate(msg, ERROR_CHARS)
    IN  \/ IsInfix(<<"5", "0", "2">>, last_error)
        \/ IsInfix(<<"5", "0", "3">>, last_error)
        \/ IsInfix(<<"5", "0", "4">>, last_error)

(* What one call of upload_func(item) can do: return (success, photos_added, *)
(* photos_failed, error) or raise an exception with a message.              *)
Ok(pa, pf) == [kind |-> "return", success |-> TRUE, photos_added |-> pa,
               photos_failed |-> pf, msg |-> MsgNone]
Refused == [kind |-> "return", success |-> FALSE, photos_added |-> 0,
            photos_failed |-> 0, msg |-> Msg503]
Raises(m) == [kind |-> "raise", success |-> FALSE, photos_added |-> 0,
              photos_failed |-> 0, msg |-> m]

\* an exception that the handler of lines 159-168 does not turn into a result:
\* it leaves _upload_one and is re-raised by future.result() at line 256
Escapes == [kind |-> "escape", success |-> FALSE, photos_added |-> 0,
            photos_failed |-> 0, msg |-> MsgNone]

Outcomes == {Ok(2, 1), Refused, Raises(Msg503), Raises(Msg504), Raises(Msg404)}

\* ------------------------------------------------------------- the state
VARIABLES
    \* constructor arguments (lines 113-117)
    upload_func,        \* the outcomes the injected upload function can produce
    parallel_workers,   \* max_workers of the per-batch pool
    on_progress,        \* "none", or what the progress callback does
    inputs,             \* the batches the clients pass to upload_batch
    budget,             \* how many calls of each kind the clients make
    \* fields of the uploader (lines 118-129)
    stats,              \* StreamingStats
    existing_ids,       \* _existing_ids
    session_started,    \* _session_started
    upload_queue,       \* _upload_queue: the queued tasks, head first
    unfinished_tasks,   \* _upload_queue.unfinished_tasks (put / task_done / join)
    upload_thread,      \* _upload_thread: NoThread or a thread object
    stop_event,         \* _stop_event
    \* threads
    thread,             \* thread object -> "none" | "new" | "running" | "dead"
    dsp,                \* dispatcher thread -> its position and locals
    cl,                 \* client thread -> its position and locals
    ncalls,             \* upload_batch calls made so far (gives the page numbers)
    nshutdowns,         \* finish / abort calls made so far
    nseeds,             \* add_existing_ids calls made so far
    \* history
    seeded,             \* the identifiers passed to add_existing_ids so far
    enq,                \* the batches put on the queue, in queue order
    calls,              \* record -> outcomes of the upload_func calls made for it
    counted,            \* record -> the Statistics counters incremented for it
    before,             \* page -> pages whose put had completed when its call began
    begun,              \* pages whose dispatch (_upload_batch_sync) has begun
    done,               \* pages whose dispatch has completed
    snap,               \* client -> pages seen at the call of finish / abort
    progress,           \* the calls of on_progress made so far
    \* the cancellation source and the threads that consult it
    source,             \* "running", "paused" or "stopping"
    ncmds,              \* pause / resume / stop commands received so far
    it,                 \* a loop over TaskRunner.iterate(items)
    par                 \* a run of a parser

cfgVars == <<upload_func, parallel_workers, on_progress, inputs, budget>>
objVars == <<stats, existing_ids, session_started, upload_queue, unfinished_tasks,
             upload_thread, stop_event>>
thrVars == <<thread, dsp>>
cliVars == <<cl, ncalls, nshutdowns, nseeds>>
histVars == <<seeded, enq, calls, counted, before, begun, done, snap, progress>>
runVars == <<source, ncmds, it, par>>
vars == <<cfgVars, objVars, thrVars, cliVars, histVars, runVars>>

Counters == {"pages", "items", "success", "failed", "skipped",
             "photos_added", "photos_failed"}

\* line 50-59: StreamingStats()
StreamingStats == [c \in Counters |-> 0]

Pages == 1 .. budget.calls
Batches == UNION {[1 .. n -> Ids] : n \in 0 .. MaxLen}

IdleClient == [pc |-> "idle", items |-> <<>>, page |-> 0, force |-> FALSE,
               in_finish |-> FALSE]
NoTask == [items |-> <<>>, page |-> 0]
NoReg == [ctr |-> "pages", val |-> 0, next |-> "loop"]
IdleDispatcher == [pc |-> "none", task |-> NoTask, i |-> 0, to_upload |-> <<>>,
                   fut |-> <<>>, reg |-> NoReg]
NoSnap == [queued |-> {}, put |-> {}, alive |-> FALSE, quiet |-> FALSE,
           forced |-> FALSE]

\* no loop over TaskRunner.iterate and no parser run
NoIter == [pc |-> "off", items |-> 0, pulled |-> 0, yielded |-> 0, checks |-> 0,
           passed |-> 0, current_item |-> 0, items_processed |-> 0,
           passed_at_stop |-> 0, woken |-> "none",
           invoked |-> 0, result |-> "none", is_paused |-> FALSE,
           is_stopping |-> FALSE]
NoRun == [pc |-> "off"]

\* lines 91-131: __init__
InitUploader(funcs, workers, callbacks, batches, limits, clients) ==
    /\ upload_func \in funcs
    /\ parallel_workers \in workers
    /\ on_progress \in callbacks
    /\ inputs = batches
    /\ budget = limits
    /\ stats = StreamingStats
    /\ existing_ids = {}
    /\ session_started = FALSE
    /\ upload_queue = <<>>
    /\ unfinished_tasks = 0
    /\ upload_thread = NoThread
    /\ stop_event = FALSE
    /\ thread = [t \in Threads |-> "none"]
    /\ dsp = [t \in Threads |-> IdleDispatcher]
    /\ cl = [c \in Clients |-> IF c \in clients THEN IdleClient
                                ELSE [IdleClient EXCEPT !.pc = "off"]]
    /\ ncalls = 0
    /\ nshutdowns = 0
    /\ nseeds = 0
    /\ seeded = {}
    /\ enq = <<>>
    /\ calls = [p \in 1 .. limits.calls |-> [i \in 1 .. MaxLen |-> <<>>]]
    /\ counted = [p \in 1 .. limits.calls |-> [i \in 1 .. MaxLen |-> <<>>]]
    /\ before = [p \in 1 .. limits.calls |-> {}]
    /\ begun = {}
    /\ done = {}
    /\ snap = [c \in Clients |-> NoSnap]
    /\ progress = <<>>

\* the uploader used directly by its client threads
InitWith(funcs, workers, callbacks, batches, limits, clients) ==
    /\ InitUploader(funcs, workers, callbacks, batches, limits, clients)
    /\ source = "running"
    /\ ncmds = 0
    /\ it = NoIter
    /\ par = NoRun

\* ------------------------------------------------------------ helpers
\* threading.Thread.is_alive(), behind the "is not None" test of lines 175, 289, 296
IsAlive(t) == t # NoThread /\ thread[t] = "running"

\* queue.Queue.put (unbounded: never blocks)
Put(task) ==
    /\ upload_queue' = Append(upload_queue, task)
    /\ unfinished_tasks' = unfinished_tasks + 1

PagesOf(q) == {q[k].page : k \in 1 .. Len(q)} \ {0}

\* threading.Thread.join(timeout): returns when the thread has ended or the
\* timeout has run out, whichever comes first
JoinForever(t) == thread[t] # "running"
JoinTimeout(t) == TRUE

\* the thread object the next threading.Thread(...) call creates
NewThread == IF thread["t1"] = "none" THEN "t1" ELSE "t2"

Goto(c, pc) == cl' = [cl EXCEPT ![c].pc = pc]

\* no other client thread is inside a call
Quiet(c) == \A o \in Clients \ {c} : cl[o].pc \in {"idle", "off"}

\* ------------------------------------------------- add_existing_ids
\* lines 133-136
AddExistingIds(c) ==
    /\ cl[c].pc = "idle"
    /\ nseeds < budget.seeds
    /\ \E ids \in budget.seed_sets :
          /\ existing_ids' = existing_ids \cup ids
          /\ seeded' = seeded \cup ids
    /\ nseeds' = nseeds + 1
    /\ UNCHANGED <<cfgVars, runVars, stats, session_started, upload_queue, unfinished_tasks,
                   upload_thread, stop_event, thrVars, cl, ncalls, nshutdowns,
                   enq, calls, counted, before, begun, done, snap,
                   progress>>

\* ------------------------------------------------------ upload_batch
\* lines 209-213: the call, the empty-batch return, the test of _session_started
NextAfterCallUnguarded(items) ==
    IF ~session_started THEN "ub_set" ELSE "ub_put"
NextAfterCall(items) ==
    IF items = <<>> THEN "idle"
    ELSE IF ~session_started THEN "ub_set" ELSE "ub_put"

UploadBatch(c) ==
    /\ cl[c].pc = "idle"
    /\ ncalls < budget.calls
    /\ \E items \in inputs :
          cl' = [cl EXCEPT ![c].pc = NextAfterCall(items),
                           ![c].items = items,
                           ![c].page = ncalls + 1]
    /\ ncalls' = ncalls + 1
    /\ before' = [before EXCEPT ![ncalls + 1] = PagesOf(enq)]
    /\ UNCHANGED <<cfgVars, runVars, objVars, thrVars, nshutdowns, nseeds,
                   seeded, enq, calls, counted, begun, done, snap,
                   progress>>

\* line 214
SetSessionStarted(c) ==
    /\ cl[c].pc = "ub_set"
    /\ session_started' = TRUE
    /\ Goto(c, "st_check")
    /\ UNCHANGED <<cfgVars, runVars, stats, existing_ids, upload_queue, unfinished_tasks,
                   upload_thread, stop_event, thrVars, ncalls, nshutdowns, nseeds,
                   histVars>>

\* lines 175-176
StartCheck(c) ==
    /\ cl[c].pc = "st_check"
    /\ Goto(c, IF IsAlive(upload_thread) THEN "ub_put" ELSE "st_clear")
    /\ UNCHANGED <<cfgVars, runVars, objVars, thrVars, ncalls, nshutdowns, nseeds, histVars>>

\* line 178
StartClear(c) ==
    /\ cl[c].pc = "st_clear"
    /\ stop_event' = FALSE
    /\ Goto(c, "st_new")
    /\ UNCHANGED <<cfgVars, runVars, stats, existing_ids, session_started, upload_queue,
                   unfinished_tasks, upload_thread, thrVars, ncalls, nshutdowns,
                   nseeds, histVars>>

\* lines 179-183: a new Thread object is stored in _upload_thread
StartNew(c) ==
    /\ cl[c].pc = "st_new"
    /\ upload_thread' = NewThread
    /\ thread' = [thread EXCEPT ![NewThread] = "new"]
    /\ Goto(c, "st_start")
    /\ UNCHANGED <<cfgVars, runVars, stats, existing_ids, session_started, upload_queue,
                   unfinished_tasks, stop_event, dsp, ncalls, nshutdowns, nseeds,
                   histVars>>

\* line 184: self._upload_thread.start() starts the thread the field holds now;
\* starting a thread a second time raises RuntimeError, which leaves upload_batch
StartStart(c) ==
    /\ cl[c].pc = "st_start"
    /\ IF thread[upload_thread] = "new"
       THEN /\ thread' = [thread EXCEPT ![upload_thread] = "running"]
            /\ dsp' = [dsp EXCEPT ![upload_thread].pc = "loop"]
            /\ Goto(c, "ub_put")
       ELSE /\ cl' = [cl EXCEPT ![c] = IdleClient]
            /\ UNCHANGED thrVars
    /\ UNCHANGED <<cfgVars, runVars, objVars, ncalls, nshutdowns, nseeds, histVars>>

\* line 127: queue.Queue() has no maxsize, so put never finds the queue full
QueueFullAtOne == Len(upload_queue) >= 1
QueueFull == FALSE

\* line 219
UploadPut(c) ==
    /\ cl[c].pc = "ub_put"
    /\ ~QueueFull
    /\ Put([items |-> cl[c].items, page |-> cl[c].page])
    /\ enq' = Append(enq, [items |-> cl[c].items, page |-> cl[c].page,
                            seeded |-> seeded])
    /\ cl' = [cl EXCEPT ![c] = IdleClient]
    /\ UNCHANGED <<cfgVars, runVars, stats, existing_ids, session_started, upload_thread,
                   stop_event, thrVars, ncalls, nshutdowns, nseeds,
                   seeded, calls, counted, before, begun, done, snap,
                   progress>>

\* ------------------------------------------------------------- abort
\* line 280, entered by a call of abort() or from finish(force=True) at line 299
AbortSet(c) ==
    /\ \/ /\ cl[c].pc = "idle"
          /\ nshutdowns < budget.shutdowns
          /\ TRUE \in budget.force
          /\ nshutdowns' = nshutdowns + 1
       \/ /\ cl[c].pc = "a_set"
          /\ UNCHANGED nshutdowns
    /\ stop_event' = TRUE
    /\ Goto(c, "a_drain")
    /\ snap' = [snap EXCEPT ![c] = [queued |-> PagesOf(upload_queue),
                                    put |-> PagesOf(enq),
                                    alive |-> IsAlive(upload_thread),
                                    quiet |-> Quiet(c),
                                    forced |-> TRUE]]
    /\ UNCHANGED <<cfgVars, runVars, stats, existing_ids, session_started, upload_queue,
                   unfinished_tasks, upload_thread, thrVars, ncalls, nseeds,
                   seeded, enq, calls, counted, before, begun, done,
                   progress>>

\* lines 282-287: one turn of the loop, get_nowait() and task_done(), or its end
AbortDrain(c) ==
    /\ cl[c].pc = "a_drain"
    /\ IF upload_queue = <<>>
       THEN /\ Goto(c, "a_check")
            /\ UNCHANGED <<upload_queue, unfinished_tasks>>
       ELSE /\ upload_queue' = Tail(upload_queue)
            /\ unfinished_tasks' = unfinished_tasks - 1
            /\ UNCHANGED cl
    /\ UNCHANGED <<cfgVars, runVars, stats, existing_ids, session_started, upload_thread,
                   stop_event, thrVars, ncalls, nshutdowns, nseeds, histVars>>

\* line 289
AbortCheck(c) ==
    /\ cl[c].pc = "a_check"
    /\ Goto(c, IF IsAlive(upload_thread) THEN "a_put"
               ELSE IF cl[c].in_finish THEN "f_ret" ELSE "a_ret")
    /\ UNCHANGED <<cfgVars, runVars, objVars, thrVars, ncalls, nshutdowns, nseeds, histVars>>

\* line 290
AbortPut(c) ==
    /\ cl[c].pc = "a_put"
    /\ Put(Sentinel)
    /\ Goto(c, "a_join")
    /\ UNCHANGED <<cfgVars, runVars, stats, existing_ids, session_started, upload_thread,
                   stop_event, thrVars, ncalls, nshutdowns, nseeds, histVars>>

\* line 291: join(timeout=1)
AbortJoin(c) ==
    /\ cl[c].pc = "a_join"
    /\ JoinTimeout(upload_thread)
    /\ Goto(c, IF cl[c].in_finish THEN "f_ret" ELSE "a_ret")
    /\ UNCHANGED <<cfgVars, runVars, objVars, thrVars, ncalls, nshutdowns, nseeds, histVars>>

\* abort() returns to its caller
AbortReturn(c) ==
    /\ cl[c].pc = "a_ret"
    /\ cl' = [cl EXCEPT ![c] = IdleClient]
    /\ UNCHANGED <<cfgVars, runVars, objVars, thrVars, ncalls, nshutdowns, nseeds, histVars>>

\* ------------------------------------------------------------ finish
\* lines 296-301: the test of the dispatcher thread and of force
NextAfterFinishNoAbort(force) ==
    IF ~IsAlive(upload_thread) THEN "f_ret" ELSE IF force THEN "f_put" ELSE "f_join"
NextAfterFinish(force) ==
    IF ~IsAlive(upload_thread) THEN "f_ret" ELSE IF force THEN "a_set" ELSE "f_join"

\* lines 296-301: the call and the test of the dispatcher thread
Finish(c) ==
    /\ cl[c].pc = "idle"
    /\ nshutdowns < budget.shutdowns
    /\ nshutdowns' = nshutdowns + 1
    /\ \E force \in budget.force :
          cl' = [cl EXCEPT ![c].force = force,
                           ![c].in_finish = TRUE,
                           ![c].pc = NextAfterFinish(force)]
    /\ snap' = [snap EXCEPT ![c] = [queued |-> PagesOf(upload_queue),
                                    put |-> PagesOf(enq),
                                    alive |-> IsAlive(upload_thread),
                                    quiet |-> Quiet(c),
                                    forced |-> FALSE]]
    /\ UNCHANGED <<cfgVars, runVars, objVars, thrVars, ncalls, nseeds,
                   seeded, enq, calls, counted, before, begun, done,
                   progress>>

\* line 302: queue.join() returns when every task put has been marked done
QueueJoinNoWait == TRUE
QueueJoinOnEmpty == upload_queue = <<>>
QueueJoin == unfinished_tasks = 0

FinishQueueJoin(c) ==
    /\ cl[c].pc = "f_join"
    /\ QueueJoin
    /\ Goto(c, "f_put")
    /\ UNCHANGED <<cfgVars, runVars, objVars, thrVars, ncalls, nshutdowns, nseeds, histVars>>

\* line 303
FinishPut(c) ==
    /\ cl[c].pc = "f_put"
    /\ Put(Sentinel)
    /\ Goto(c, "f_tjoin")
    /\ UNCHANGED <<cfgVars, runVars, stats, existing_ids, session_started, upload_thread,
                   stop_event, thrVars, ncalls, nshutdowns, nseeds, histVars>>

\* line 304: join(timeout=10)
FinishThreadJoin(c) ==
    /\ cl[c].pc = "f_tjoin"
    /\ JoinTimeout(upload_thread)
    /\ Goto(c, "f_ret")
    /\ UNCHANGED <<cfgVars, runVars, objVars, thrVars, ncalls, nshutdowns, nseeds, histVars>>

\* lines 307-311: the summary is logged and self.stats returned
FinishReturn(c) ==
    /\ cl[c].pc = "f_ret"
    /\ cl' = [cl EXCEPT ![c] = IdleClient]
    /\ UNCHANGED <<cfgVars, runVars, objVars, thrVars, ncalls, nshutdowns, nseeds, histVars>>

\* ------------------------------------------------- the dispatcher thread
StartWindow == {"ub_set", "st_check", "st_clear", "st_new", "st_start"}

(* A statement  self.stats.x += k  loads the counter and stores the sum.    *)
(* While no other dispatcher thread runs or can still be started, nothing   *)
(* can come between the load and the store, and the model takes both in one *)
(* step.  Otherwise the load and the store are two steps.                   *)
Solo(t) ==
    /\ \A u \in Threads \ {t} : thread[u] # "running"
    /\ \A c \in Clients : cl[c].pc \notin StartWindow

Inc(t, d, ctr, k, next) ==
    IF Solo(t)
    THEN /\ stats' = [stats EXCEPT ![ctr] = @ + k]
         /\ dsp' = [d EXCEPT ![t].pc = next]
    ELSE /\ dsp' = [d EXCEPT ![t].pc = "store",
                             ![t].reg = [ctr |-> ctr, val |-> stats[ctr] + k,
                                         next |-> next]]
         /\ UNCHANGED stats

StoreCounter(t) ==
    /\ thread[t] = "running"
    /\ dsp[t].pc = "store"
    /\ stats' = [stats EXCEPT ![dsp[t].reg.ctr] = dsp[t].reg.val]
    /\ dsp' = [dsp EXCEPT ![t].pc = dsp[t].reg.next, ![t].reg = NoReg]
    /\ UNCHANGED <<cfgVars, runVars, existing_ids, session_started, upload_queue,
                   unfinished_tasks, upload_thread, stop_event, thread, cliVars,
                   histVars>>

\* line 189: the test of the stop flag at the head of the loop
StopSeen == stop_event

WorkerLoop(t) ==
    /\ thread[t] = "running"
    /\ dsp[t].pc = "loop"
    /\ IF StopSeen
       THEN /\ thread' = [thread EXCEPT ![t] = "dead"]
            /\ dsp' = [dsp EXCEPT ![t] = IdleDispatcher]
       ELSE /\ dsp' = [dsp EXCEPT ![t].pc = "get"]
            /\ UNCHANGED thread
    /\ UNCHANGED <<cfgVars, runVars, objVars, cliVars, histVars>>

\* line 192: get(timeout=0.5) returns, with a task or with queue.Empty, whatever
\* the queue holds; a get() without timeout would wait for a task
QueueGetNoTimeout == upload_queue # <<>>
QueueGet == TRUE

\* lines 192-197, 199-200: get(timeout=0.5) returns the head of the queue, or
\* raises Empty when nothing is there; None ends the thread
WorkerGet(t) ==
    /\ thread[t] = "running"
    /\ dsp[t].pc = "get"
    /\ QueueGet
    /\ IF upload_queue = <<>>
       THEN /\ dsp' = [dsp EXCEPT ![t].pc = "loop"]
            /\ UNCHANGED <<upload_queue, thread, begun>>
       ELSE /\ upload_queue' = Tail(upload_queue)
            /\ IF Head(upload_queue) = Sentinel
               THEN /\ thread' = [thread EXCEPT ![t] = "dead"]
                    /\ dsp' = [dsp EXCEPT ![t] = IdleDispatcher]
                    /\ UNCHANGED begun
               ELSE /\ dsp' = [dsp EXCEPT ![t].pc = "pages",
                                          ![t].task = Head(upload_queue)]
                    /\ begun' = begun \cup {Head(upload_queue).page}
                    /\ UNCHANGED thread
    /\ UNCHANGED <<cfgVars, runVars, stats, existing_ids, session_started, unfinished_tasks,
                   upload_thread, stop_event, cliVars,
                   seeded, enq, calls, counted, before, done, snap,
                   progress>>

\* lines 226-231
BatchPages(t) ==
    /\ thread[t] = "running"
    /\ dsp[t].pc = "pages"
    /\ Inc(t, dsp, "pages", 1, "filter")
    /\ UNCHANGED <<cfgVars, runVars, existing_ids, session_started, upload_queue,
                   unfinished_tasks, upload_thread, stop_event, thread, cliVars,
                   histVars>>

\* lines 138-140
ShouldSkipNever(item_id) == FALSE
ShouldSkip(item_id) == item_id \in existing_ids

Note(h, page, pos, what) == [h EXCEPT ![page][pos] = Append(@, what)]

\* lines 232-238: one turn of the filter loop, for the record at position i + 1
BatchFilter(t) ==
    /\ thread[t] = "running"
    /\ dsp[t].pc = "filter"
    /\ dsp[t].i < Len(dsp[t].task.items)
    /\ LET pos == dsp[t].i + 1
           page == dsp[t].task.page
       IN  IF ShouldSkip(dsp[t].task.items[pos])
           THEN /\ Inc(t, [dsp EXCEPT ![t].i = pos], "skipped", 1, "filter")
                /\ counted' = Note(counted, page, pos, "skipped")
           ELSE /\ dsp' = [dsp EXCEPT ![t].i = pos,
                                      ![t].to_upload = Append(@, pos)]
                /\ UNCHANGED <<stats, counted>>
    /\ UNCHANGED <<cfgVars, runVars, existing_ids, session_started, upload_queue,
                   unfinished_tasks, upload_thread, stop_event, thread, cliVars,
                   seeded, enq, calls, before, begun, done, snap,
                   progress>>

\* slept: the arguments of the time.sleep calls _upload_one has made (line 165)
\* chunk: the half-second chunks a patched sleep has slept (cli.py line 72)
Pending == [st |-> "pending", attempt |-> 0, slept |-> <<>>, chunk |-> 0,
            success |-> FALSE, photos_added |-> 0, photos_failed |-> 0]

\* lines 240-244: nothing to upload, _upload_batch_sync returns 0
BatchAllSkipped(t) ==
    /\ thread[t] = "running"
    /\ dsp[t].pc = "filter"
    /\ dsp[t].i = Len(dsp[t].task.items)
    /\ dsp[t].to_upload = <<>>
    /\ dsp' = [dsp EXCEPT ![t].pc = "task_done"]
    /\ done' = done \cup {dsp[t].task.page}
    /\ UNCHANGED <<cfgVars, runVars, objVars, thread, cliVars,
                   seeded, enq, calls, counted, before, begun, snap,
                   progress>>

\* line 246: self.stats.items += len(to_upload), the records left by the filter
LenOfBatch(t) == Len(dsp[t].task.items)
LenToUpload(t) == Len(dsp[t].to_upload)

\* lines 246-253: the items counter, then the pool is created and every record
\* of to_upload submitted to it
BatchItems(t) ==
    /\ thread[t] = "running"
    /\ dsp[t].pc = "filter"
    /\ dsp[t].i = Len(dsp[t].task.items)
    /\ dsp[t].to_upload # <<>>
    /\ Inc(t, [dsp EXCEPT ![t].fut = [k \in 1 .. Len(dsp[t].to_upload) |-> Pending]],
           "items", LenToUpload(t), "pool")
    /\ UNCHANGED <<cfgVars, runVars, existing_ids, session_started, upload_queue,
                   unfinished_tasks, upload_thread, stop_event, thread, cliVars,
                   histVars>>

\* ------------------------------------------------------ the pool threads
\* how the history records a call of upload_func
InFlight == "inflight"
Tag(o) == IF o.kind = "return"
          THEN IF o.success THEN "ok" ELSE "refused"
          ELSE IF o.kind = "escape" THEN "escaped"
          ELSE IF IsTransient(o.msg) THEN "transient" ELSE "permanent"

RecordOf(t, k) == <<dsp[t].task.page, dsp[t].to_upload[k]>>

\* the pool threads that are running _upload_one
Busy(t) ==
    {k \in DOMAIN dsp[t].fut :
        dsp[t].fut[k].st \in {"calling", "backoff", "sleeping", "held"}}

\* ThreadPoolExecutor(max_workers): a submitted call starts when a pool thread
\* is free, in the order of submission
FreeWorker(t) == Cardinality(Busy(t)) < parallel_workers

\* the dispatcher is inside the with block of lines 252-265: the records have
\* been submitted and the pool not yet shut down
InPool == {"pool", "col_pa", "col_pf", "col_add", "pool_exit"}
PoolOpen(t) ==
    \/ dsp[t].pc \in InPool
    \/ dsp[t].pc = "store" /\ dsp[t].reg.next \in InPool /\ dsp[t].reg.ctr # "items"

\* line 253 and lines 148-153: a pool thread takes the next submitted record
\* and makes the first call of upload_func
PoolStart(t, k) ==
    /\ thread[t] = "running"
    /\ PoolOpen(t)
    /\ k \in DOMAIN dsp[t].fut
    /\ dsp[t].fut[k].st = "pending"
    /\ \A j \in 1 .. (k - 1) : dsp[t].fut[j].st # "pending"
    /\ FreeWorker(t)
    /\ dsp' = [dsp EXCEPT ![t].fut[k].st = "calling"]
    /\ calls' = Note(calls, RecordOf(t, k)[1], RecordOf(t, k)[2], InFlight)
    /\ UNCHANGED <<cfgVars, runVars, objVars, thread, cliVars,
                   seeded, enq, counted, before, begun, done, snap,
                   progress>>

\* lines 159-168: a raised error is retried when it is a transient one and
\* attempts are left
RetriesAlways(msg, attempt) == IsTransient(msg)
RetriesAnyError(msg, attempt) == attempt < MAX_RETRIES - 1
RetriesNever(msg, attempt) == FALSE
Retries(msg, attempt) == IsTransient(msg) /\ attempt < MAX_RETRIES - 1

\* line 165: time.sleep(RETRY_DELAY * (attempt + 1)), attempt counting from 0
BackoffConstant(attempt) == RETRY_DELAY
Backoff(attempt) == RETRY_DELAY * (attempt + 1)

\* lines 153-171: the call of upload_func returns or raises
ReturnedOrRaised(f, o) ==
    IF o.kind = "return" /\ o.success
    THEN [f EXCEPT !.st = "done", !.success = TRUE,
                   !.photos_added = o.photos_added,
                   !.photos_failed = o.photos_failed]
    ELSE IF o.kind = "escape" THEN [f EXCEPT !.st = "raised"]
    ELSE IF Retries(o.msg, f.attempt)
         THEN [f EXCEPT !.st = "backoff",
                        !.slept = Append(@, Backoff(f.attempt))]
         ELSE [f EXCEPT !.st = "done"]

Returned(f, o) ==
    IF o.kind = "return"
    THEN IF o.success
         THEN [f EXCEPT !.st = "done", !.success = TRUE,
                        !.photos_added = o.photos_added,
                        !.photos_failed = o.photos_failed]
         ELSE [f EXCEPT !.st = "done"]
    ELSE IF o.kind = "escape" THEN [f EXCEPT !.st = "raised"]
    ELSE IF Retries(o.msg, f.attempt)
         THEN [f EXCEPT !.st = "backoff",
                        !.slept = Append(@, Backoff(f.attempt))]
         ELSE [f EXCEPT !.st = "done"]

SetLast(s, x) == [s EXCEPT ![Len(s)] = x]

CallReturn(t, k) ==
    /\ thread[t] = "running"
    /\ k \in DOMAIN dsp[t].fut
    /\ dsp[t].fut[k].st = "calling"
    /\ \E o \in upload_func :
          /\ dsp' = [dsp EXCEPT ![t].fut[k] = Returned(@, o)]
          /\ calls' = [calls EXCEPT ![RecordOf(t, k)[1]][RecordOf(t, k)[2]] =
                                        SetLast(@, Tag(o))]
    /\ UNCHANGED <<cfgVars, runVars, objVars, thread, cliVars,
                   seeded, enq, counted, before, begun, done, snap,
                   progress>>

\* lines 165-166 and 151-153: the backoff sleep ends and the next attempt calls
\* upload_func again
Retry(t, k) ==
    /\ thread[t] = "running"
    /\ k \in DOMAIN dsp[t].fut
    /\ dsp[t].fut[k].st = "backoff"
    /\ dsp' = [dsp EXCEPT ![t].fut[k].st = "calling",
                          ![t].fut[k].attempt = @ + 1]
    /\ calls' = Note(calls, RecordOf(t, k)[1], RecordOf(t, k)[2], InFlight)
    /\ UNCHANGED <<cfgVars, runVars, objVars, thread, cliVars,
                   seeded, enq, counted, before, begun, done, snap,
                   progress>>

\* ----------------------------------- the dispatcher collects the results
\* lines 255-265: as_completed yields a finished future; its result is counted.
\* For a success the statements of lines 259-263 follow one another; while the
\* dispatcher is the only one (Solo) they are taken in one step.
CollectAddsAlways(t, k) ==
    /\ thread[t] = "running"
    /\ dsp[t].pc = "pool"
    /\ k \in DOMAIN dsp[t].fut
    /\ dsp[t].fut[k].st = "done"
    /\ LET f == dsp[t].fut[k]
           d == [dsp EXCEPT ![t].fut[k].st = "collected", ![t].i = k]
           item_id == dsp[t].task.items[dsp[t].to_upload[k]]
       IN  IF f.success
           THEN /\ IF Solo(t)
                   THEN /\ stats' = [stats EXCEPT
                                        !["success"] = @ + 1,
                                        !["photos_added"] = @ + f.photos_added,
                                        !["photos_failed"] = @ + f.photos_failed]
                        /\ existing_ids' = existing_ids \cup {item_id}
                        /\ dsp' = d
                   ELSE /\ Inc(t, d, "success", 1, "col_pa")
                        /\ UNCHANGED existing_ids
                /\ counted' = Note(counted, RecordOf(t, k)[1], RecordOf(t, k)[2],
                                   "success")
           ELSE /\ Inc(t, d, "failed", 1, "pool")
                /\ counted' = Note(counted, RecordOf(t, k)[1], RecordOf(t, k)[2],
                                   "failed")
                /\ existing_ids' = existing_ids \cup {item_id}
    /\ UNCHANGED <<cfgVars, runVars, session_started, upload_queue,
                   unfinished_tasks, upload_thread, stop_event, thread, cliVars,
                   seeded, enq, calls, before, begun, done, snap,
                   progress>>

Collect(t, k) ==
    /\ thread[t] = "running"
    /\ dsp[t].pc = "pool"
    /\ k \in DOMAIN dsp[t].fut
    /\ dsp[t].fut[k].st = "done"
    /\ LET f == dsp[t].fut[k]
           d == [dsp EXCEPT ![t].fut[k].st = "collected", ![t].i = k]
           item_id == dsp[t].task.items[dsp[t].to_upload[k]]
       IN  IF f.success
           THEN /\ IF Solo(t)
                   THEN /\ stats' = [stats EXCEPT
                                        !["success"] = @ + 1,
                                        !["photos_added"] = @ + f.photos_added,
                                        !["photos_failed"] = @ + f.photos_failed]
                        /\ existing_ids' = existing_ids \cup {item_id}
                        /\ dsp' = d
                   ELSE /\ Inc(t, d, "success", 1, "col_pa")
                        /\ UNCHANGED existing_ids
                /\ counted' = Note(counted, RecordOf(t, k)[1], RecordOf(t, k)[2],
                                   "success")
           ELSE /\ Inc(t, d, "failed", 1, "pool")
                /\ counted' = Note(counted, RecordOf(t, k)[1], RecordOf(t, k)[2],
                                   "failed")
                /\ UNCHANGED existing_ids
    /\ UNCHANGED <<cfgVars, runVars, session_started, upload_queue,
                   unfinished_tasks, upload_thread, stop_event, thread, cliVars,
                   seeded, enq, calls, before, begun, done, snap,
                   progress>>

\* line 261
CollectPhotosAdded(t) ==
    /\ thread[t] = "running"
    /\ dsp[t].pc = "col_pa"
    /\ Inc(t, dsp, "photos_added", dsp[t].fut[dsp[t].i].photos_added, "col_pf")
    /\ UNCHANGED <<cfgVars, runVars, existing_ids, session_started, upload_queue,
                   unfinished_tasks, upload_thread, stop_event, thread, cliVars,
                   histVars>>

\* line 262
CollectPhotosFailed(t) ==
    /\ thread[t] = "running"
    /\ dsp[t].pc = "col_pf"
    /\ Inc(t, dsp, "photos_failed", dsp[t].fut[dsp[t].i].photos_failed, "col_add")
    /\ UNCHANGED <<cfgVars, runVars, existing_ids, session_started, upload_queue,
                   unfinished_tasks, upload_thread, stop_event, thread, cliVars,
                   histVars>>

\* line 263
CollectAdd(t) ==
    /\ thread[t] = "running"
    /\ dsp[t].pc = "col_add"
    /\ existing_ids' = existing_ids \cup {dsp[t].task.items[dsp[t].to_upload[dsp[t].i]]}
    /\ dsp' = [dsp EXCEPT ![t].pc = "pool"]
    /\ UNCHANGED <<cfgVars, runVars, stats, session_started, upload_queue,
                   unfinished_tasks, upload_thread, stop_event, thread, cliVars,
                   histVars>>

\* lines 273-274: self.on_progress(self.stats) hands the callback the stats
\* object of the uploader itself; seen is what the callback reads during the call
OnProgress(page) ==
    IF on_progress = "none" THEN progress
    ELSE Append(progress, [page |-> page, ref |-> "self.stats", seen |-> stats])

\* lines 265-276 and 201-202: every future has been collected, the pool is shut
\* down and the progress callback called; an exception it raises is caught in
\* _upload_worker, which goes on with its loop
BatchReturnOnFailure(t) ==
    /\ thread[t] = "running"
    /\ dsp[t].pc = "pool"
    /\ \/ \A k \in DOMAIN dsp[t].fut : dsp[t].fut[k].st = "collected"
       \/ \E k \in DOMAIN dsp[t].fut :
             dsp[t].fut[k].st = "collected" /\ ~dsp[t].fut[k].success
    /\ dsp' = [dsp EXCEPT ![t].pc = "task_done",
                          ![t].i = 0, ![t].to_upload = <<>>, ![t].fut = <<>>]
    /\ done' = done \cup {dsp[t].task.page}
    /\ progress' = OnProgress(dsp[t].task.page)
    /\ UNCHANGED <<cfgVars, runVars, objVars, thread, cliVars,
                   seeded, enq, calls, counted, before, begun, snap>>

BatchReturn(t) ==
    /\ thread[t] = "running"
    /\ dsp[t].pc = "pool"
    /\ \A k \in DOMAIN dsp[t].fut : dsp[t].fut[k].st = "collected"
    /\ dsp' = [dsp EXCEPT ![t].pc = IF on_progress = "raises" THEN "loop"
                                    ELSE "task_done",
                          ![t].task = IF on_progress = "raises" THEN NoTask ELSE @,
                          ![t].i = 0, ![t].to_upload = <<>>, ![t].fut = <<>>]
    /\ done' = done \cup {dsp[t].task.page}
    /\ progress' = OnProgress(dsp[t].task.page)
    /\ UNCHANGED <<cfgVars, runVars, objVars, thread, cliVars,
                   seeded, enq, calls, counted, before, begun, snap>>

\* line 256: future.result() re-raises the exception that left _upload_one;
\* the dispatcher leaves the loop of line 255 for the end of the with block
CollectRaised(t, k) ==
    /\ thread[t] = "running"
    /\ dsp[t].pc = "pool"
    /\ k \in DOMAIN dsp[t].fut
    /\ dsp[t].fut[k].st = "raised"
    /\ dsp' = [dsp EXCEPT ![t].pc = "pool_exit"]
    /\ UNCHANGED <<cfgVars, runVars, objVars, thread, cliVars, histVars>>

\* lines 252, 201-202: leaving the with block shuts the pool down with
\* wait=True, which lets every submitted call run to its end; the exception
\* then reaches the handler of _upload_worker, past task_done of line 198
PoolShutdownExits(t) ==
    /\ thread[t] = "running"
    /\ dsp[t].pc = "pool_exit"
    /\ \A k \in DOMAIN dsp[t].fut : dsp[t].fut[k].st \in {"done", "collected", "raised"}
    /\ dsp' = [dsp EXCEPT ![t] = IdleDispatcher]
    /\ thread' = [thread EXCEPT ![t] = "dead"]
    /\ done' = done \cup {dsp[t].task.page}
    /\ UNCHANGED <<cfgVars, runVars, objVars, cliVars,
                   seeded, enq, calls, counted, before, begun, snap,
                   progress>>

PoolShutdown(t) ==
    /\ thread[t] = "running"
    /\ dsp[t].pc = "pool_exit"
    /\ \A k \in DOMAIN dsp[t].fut : dsp[t].fut[k].st \in {"done", "collected", "raised"}
    /\ dsp' = [dsp EXCEPT ![t] = [IdleDispatcher EXCEPT !.pc = "loop"]]
    /\ done' = done \cup {dsp[t].task.page}
    /\ UNCHANGED <<cfgVars, runVars, objVars, thread, cliVars,
                   seeded, enq, calls, counted, before, begun, snap,
                   progress>>

\* line 198
TaskDone(t) ==
    /\ thread[t] = "running"
    /\ dsp[t].pc = "task_done"
    /\ unfinished_tasks' = unfinished_tasks - 1
    /\ dsp' = [dsp EXCEPT ![t] = [IdleDispatcher EXCEPT !.pc = "loop"]]
    /\ UNCHANGED <<cfgVars, runVars, stats, existing_ids, session_started, upload_queue,
                   upload_thread, stop_event, thread, cliVars, histVars>>

\* --------------------------------------------------- the specifications
SeedStep(c) == AddExistingIds(c)

ProducerStep(c) ==
    \/ UploadBatch(c)
    \/ SetSessionStarted(c)
    \/ StartCheck(c)
    \/ StartClear(c)
    \/ StartNew(c)
    \/ StartStart(c)
    \/ UploadPut(c)

FinishStep(c) ==
    \/ Finish(c)
    \/ FinishQueueJoin(c)
    \/ FinishPut(c)
    \/ FinishThreadJoin(c)
    \/ FinishReturn(c)

ClientStep(c) == ProducerStep(c) \/ FinishStep(c)

AbortStep(c) ==
    \/ AbortSet(c)
    \/ AbortDrain(c)
    \/ AbortCheck(c)
    \/ AbortPut(c)
    \/ AbortJoin(c)
    \/ AbortReturn(c)

DispatcherStep(t) ==
    \/ WorkerLoop(t)
    \/ WorkerGet(t)
    \/ BatchPages(t)
    \/ BatchFilter(t)
    \/ BatchAllSkipped(t)
    \/ BatchItems(t)
    \/ \E k \in 1 .. MaxLen : Collect(t, k)
    \/ BatchReturn(t)
    \/ TaskDone(t)

\* the steps that exist only while two dispatcher threads run side by side
RacingStep(t) ==
    \/ StoreCounter(t)
    \/ CollectPhotosAdded(t)
    \/ CollectPhotosFailed(t)
    \/ CollectAdd(t)

PoolStep(t) ==
    \E k \in 1 .. MaxLen :
        \/ PoolStart(t, k)
        \/ CallReturn(t, k)

RetryStep(t) == \E k \in 1 .. MaxLen : Retry(t, k)

\* the steps that exist only when an exception can leave _upload_one
EscapeStep(t) ==
    \/ \E k \in 1 .. MaxLen : CollectRaised(t, k)
    \/ PoolShutdown(t)

(* Spec: one client thread uses the uploader through its whole life: it     *)
(* seeds the deduplication set, enqueues batches, and shuts down with       *)
(* finish or abort, in any order.  The upload function returns success or   *)
(* a false result.                                                          *)
Limits(nc, ns, nd, force) ==
    [calls |-> nc, shutdowns |-> ns, seeds |-> nd,
     seed_sets |-> {{1}}, force |-> force]

SomeBatches == {<<>>, <<1>>, <<1, 2>>}

Init == InitWith({{Ok(2, 1), Refused}}, 1 .. MaxWorkers, {"none"}, SomeBatches,
                 Limits(MaxCalls, MaxShutdowns, MaxSeeds, BOOLEAN), {"c1"})

Next ==
    \/ \E c \in Clients : SeedStep(c) \/ ClientStep(c) \/ AbortStep(c)
    \/ \E t \in Threads : DispatcherStep(t) \/ PoolStep(t)

Spec == Init /\ [][Next]_vars

(* SpecRetry: one batch, an upload function that can also raise.            *)
InitRetry == InitWith({Outcomes}, {MaxWorkers}, {"none"}, SomeBatches,
                      Limits(1, 1, MaxSeeds, {FALSE}), {"c1"})

NextRetry ==
    \/ \E c \in Clients : SeedStep(c) \/ ClientStep(c)
    \/ \E t \in Threads : DispatcherStep(t) \/ PoolStep(t) \/ RetryStep(t)

SpecRetry == InitRetry /\ [][NextRetry]_vars

(* SpecClassify: one batch of one record against an upload function that   *)
(* always raises the same message: a tail with or without a marker, behind  *)
(* a padding of 0 .. MaxPad other characters.                               *)
Padded(n, tail) == [j \in 1 .. n |-> "x"] \o tail

Messages ==
    {Padded(n, tail) : n \in 0 .. MaxPad,
                       tail \in {<<"5", "0", "2">>, Msg503, Msg504, Msg404,
                                 <<"5", "0">>}}

InitClassify == InitWith({{Raises(m)} : m \in Messages}, {1}, {"none"}, {<<1>>},
                         Limits(1, 1, MaxSeeds, {FALSE}), {"c1"})

SpecClassify == InitClassify /\ [][NextRetry]_vars

(* SpecRace: two client threads enqueue side by side, then a graceful       *)
(* finish.                                                                  *)
InitRace == InitWith({{Ok(2, 1)}}, {MaxWorkers}, {"none"}, {<<1>>},
                     Limits(RaceCalls, 1, 0, {FALSE}), Clients)

NextRace ==
    \/ \E c \in Clients : ClientStep(c)
    \/ \E t \in Threads : DispatcherStep(t) \/ PoolStep(t) \/ RacingStep(t)

SpecRace == InitRace /\ [][NextRace]_vars

(* SpecFifo: two client threads enqueue side by side, one of them twice.    *)
InitFifo == InitWith({{Ok(2, 1)}}, {MaxWorkers}, {"none"}, {<<1>>},
                     Limits(FifoCalls, 0, 0, {FALSE}), Clients)

NextFifo ==
    \/ \E c \in Clients : ProducerStep(c)
    \/ \E t \in Threads : DispatcherStep(t) \/ PoolStep(t) \/ RacingStep(t)

SpecFifo == InitFifo /\ [][NextFifo]_vars

\* Two batches in a row against an upload function that may fail in every way
InitIsolate == InitWith({Outcomes}, {MaxWorkers}, {"none"}, {<<1, 2>>},
                        Limits(MaxCalls, 1, 0, {FALSE}), {"c1"})

NextIsolate ==
    \/ \E c \in Clients : ClientStep(c)
    \/ \E t \in Threads : DispatcherStep(t) \/ PoolStep(t) \/ RetryStep(t)

SpecIsolate == InitIsolate /\ [][NextIsolate]_vars

\* Exceptions that leave a delivery worker or the progress callback.  The
\* dispatcher thread and the pool threads are scheduled fairly.
InitCrash == InitWith({{Ok(2, 1), Escapes}}, {MaxWorkers}, {"none", "raises"},
                      {<<1, 2>>}, Limits(MaxCalls, 0, 0, {FALSE}), {"c1"})

NextCrash ==
    \/ \E c \in Clients : ProducerStep(c)
    \/ \E t \in Threads : DispatcherStep(t) \/ PoolStep(t) \/ EscapeStep(t)

SpecCrash ==
    /\ InitCrash /\ [][NextCrash]_vars
    /\ \A t \in Threads : WF_vars(DispatcherStep(t) \/ PoolStep(t) \/ EscapeStep(t))

\* The same exceptions, followed by a graceful finish.  Every thread that can
\* take a step eventually does: each call of the upload function and of the
\* callback returns or raises, and the client inside finish() keeps running.
InitDrain == InitWith({{Ok(2, 1), Escapes}}, {MaxWorkers}, {"none", "raises"},
                      {<<1, 2>>}, Limits(MaxCalls, 1, 0, {FALSE}), {"c1"})

NextDrain ==
    \/ \E c \in Clients : ClientStep(c)
    \/ \E t \in Threads : DispatcherStep(t) \/ PoolStep(t) \/ EscapeStep(t)

SpecDrain ==
    /\ InitDrain /\ [][NextDrain]_vars
    /\ \A t \in Threads : WF_vars(DispatcherStep(t) \/ PoolStep(t) \/ EscapeStep(t))
    /\ \A c \in Clients : WF_vars(cl[c].pc # "idle" /\ FinishStep(c))

\* Shutdown calls against a dispatcher whose upload function calls may never
\* return: a client thread that is inside abort() or finish() keeps running,
\* while nothing obliges the dispatcher or a pool worker to take a step.
InitAbort == InitWith({{Ok(2, 1)}}, {1}, {"none"}, {<<1>>},
                      Limits(MaxCalls, MaxShutdowns, 0, BOOLEAN), {"c1"})

NextAbort ==
    \/ \E c \in Clients : ClientStep(c) \/ AbortStep(c)
    \/ \E t \in Threads : DispatcherStep(t) \/ PoolStep(t)

ShutdownRuns(c) == cl[c].pc # "idle" /\ (AbortStep(c) \/ FinishStep(c))

SpecAbort ==
    InitAbort /\ [][NextAbort]_vars /\ \A c \in Clients : WF_vars(ShutdownRuns(c))

(* SpecStop: the same calls, but now the dispatcher thread and the pool     *)
(* workers are the ones that keep running (every call of the upload         *)
(* function returns), while nothing obliges a client thread to go on: a     *)
(* thread inside abort() may stand still between setting the stop flag and  *)
(* putting the sentinel.                                                    *)
DispatchRuns(t) == DispatcherStep(t) \/ PoolStep(t)

SpecStop ==
    InitAbort /\ [][NextAbort]_vars /\ \A t \in Threads : WF_vars(DispatchRuns(t))

(* SpecAgain: the same calls with every thread running: the dispatcher, the *)
(* pool workers and the client inside a shutdown call.                      *)
SpecAgain ==
    /\ InitAbort /\ [][NextAbort]_vars
    /\ \A t \in Threads : WF_vars(DispatchRuns(t))
    /\ \A c \in Clients : WF_vars(ShutdownRuns(c))

(* SpecProduce: as SpecAbort, but the thread that keeps running is the one  *)
(* inside upload_batch; the dispatcher and the pool workers may stand still *)
(* for ever, as when a call of the upload function never completes.         *)
InitProduce == InitWith({{Ok(2, 1)}}, {1}, {"none"}, {<<1>>, <<1, 2>>},
                        Limits(MaxCalls, MaxShutdowns, 0, BOOLEAN), {"c1"})

NextProduce ==
    \/ \E c \in Clients : ClientStep(c) \/ AbortStep(c)
    \/ \E t \in Threads : DispatcherStep(t) \/ PoolStep(t)

InUploadBatch(c) ==
    cl[c].pc \in {"ub_set", "st_check", "st_clear", "st_new", "st_start", "ub_put"}

ProducerRuns(c) == InUploadBatch(c) /\ ProducerStep(c)

SpecProduce ==
    InitProduce /\ [][NextProduce]_vars /\ \A c \in Clients : WF_vars(ProducerRuns(c))

(* SpecTwice: batches whose two records carry the same identifier, an      *)
(* upload function that always succeeds, a graceful finish.                 *)
InitTwice == InitWith({{Ok(2, 1)}}, 1 .. MaxWorkers, {"none"}, {<<1, 1>>},
                      Limits(MaxCalls, 1, 0, {FALSE}), {"c1"})

NextTwice ==
    \/ \E c \in Clients : ClientStep(c)
    \/ \E t \in Threads : DispatcherStep(t) \/ PoolStep(t)

SpecTwice == InitTwice /\ [][NextTwice]_vars

\* =========================================================================
\* The cancellation source.  ServiceClient is not part of the files modelled;
\* its state machine and check_interrupt follow the specification's section
\* 4.2: running -> paused -> running, running | paused -> stopping.
Pause ==
    /\ source = "running"
    /\ source' = "paused"
    /\ UNCHANGED it

Resume ==
    /\ source = "paused"
    /\ source' = "running"
    /\ UNCHANGED it

Stop ==
    /\ source \in {"running", "paused"}
    /\ source' = "stopping"
    /\ it' = [it EXCEPT !.passed_at_stop = it.passed]

CommandStep ==
    /\ ncmds < MaxCommands
    /\ ncmds' = ncmds + 1
    /\ Pause \/ Resume \/ Stop
    /\ UNCHANGED <<cfgVars, objVars, thrVars, cliVars, histVars, par>>

\* check_interrupt(), on entry: "stop" raises StopInterrupt, "block" waits for
\* the end of the pause, "return" returns normally
CheckInterrupt ==
    IF source = "stopping" THEN "stop"
    ELSE IF source = "paused" THEN "block" ELSE "return"

\* check_interrupt(), blocked in a pause: it wakes when the source is resumed
\* or stopped
WakeUp == IF source = "stopping" THEN "stop"
          ELSE IF source = "running" THEN "return" ELSE "block"

\* what a call of check_interrupt(), is_paused or shutdown_requested leaves
\* behind in the source: section 4.2, "The check functions only read this
\* state; only the external command channel mutates it"
AfterCheckConsumed(src) == "running"
AfterCheck(src) == src

\* ------------------------------------------------- TaskRunner.iterate
RunnerFrame == UNCHANGED <<cfgVars, objVars, thrVars, cliVars, histVars,
                           source, ncmds, par>>

\* the frame of a step that consults the cancellation source
CheckFrame ==
    /\ source' = AfterCheck(source)
    /\ UNCHANGED <<cfgVars, objVars, thrVars, cliVars, histVars, ncmds, par>>

\* runner.py line 126: the consumer asks for the next element and the for
\* statement of the generator pulls one from items, or finds none left
IterPull ==
    /\ it.pc = "next"
    /\ IF it.pulled < it.items
       THEN it' = [it EXCEPT !.pulled = @ + 1, !.pc = "pulled"]
       ELSE it' = [it EXCEPT !.pc = "exhausted"]
    /\ RunnerFrame

\* runner.py lines 127-130: what follows the pull of an element
AfterPullUnchecked == "yield"
AfterPull == "check"

IterPulled ==
    /\ it.pc = "pulled"
    /\ it' = [it EXCEPT !.pc = AfterPull]
    /\ RunnerFrame

\* runner.py line 128: self._client.check_interrupt()
IterCheck ==
    /\ it.pc = "check"
    /\ it' = [it EXCEPT !.checks = @ + 1,
                        !.passed = IF CheckInterrupt = "return" THEN @ + 1 ELSE @,
                        !.pc = CASE CheckInterrupt = "stop" -> "interrupted"
                                 [] CheckInterrupt = "block" -> "blocked"
                                 [] OTHER -> "yield"]
    /\ CheckFrame

\* the check of line 128, blocked in a pause
IterWake ==
    /\ it.pc = "blocked"
    /\ WakeUp # "block"
    /\ it' = [it EXCEPT !.passed = IF WakeUp = "return" THEN @ + 1 ELSE @,
                        !.woken = WakeUp,
                        !.pc = IF WakeUp = "stop" THEN "interrupted" ELSE "yield"]
    /\ CheckFrame

\* runner.py lines 129-130
IterYield ==
    /\ it.pc = "yield"
    /\ it' = [it EXCEPT !.current_item = it.pulled, !.yielded = @ + 1,
                        !.pc = "body"]
    /\ RunnerFrame

\* the body of the consumer's loop: it calls runner.checkpoint() (runner.py
\* lines 133-151) or comes to its end
CheckpointUnchecked ==
    /\ it.pc = "body"
    /\ it' = [it EXCEPT !.pc = "cp_returned"]
    /\ RunnerFrame

Checkpoint ==
    /\ it.pc = "body"
    /\ it' = [it EXCEPT !.pc = CASE CheckInterrupt = "stop" -> "cp_raised"
                                 [] CheckInterrupt = "block" -> "cp_blocked"
                                 [] OTHER -> "cp_returned"]
    /\ CheckFrame

CheckpointWake ==
    /\ it.pc = "cp_blocked"
    /\ WakeUp # "block"
    /\ it' = [it EXCEPT !.woken = WakeUp,
                        !.pc = IF WakeUp = "stop" THEN "cp_raised"
                               ELSE "cp_returned"]
    /\ CheckFrame

BodyEnd ==
    /\ it.pc \in {"body", "cp_returned", "run_returned"}
    /\ it' = [it EXCEPT !.pc = "resume"]
    /\ RunnerFrame

\* runner.py line 131: the generator is resumed for the next element
IterResume ==
    /\ it.pc = "resume"
    /\ it' = [it EXCEPT !.items_processed = @ + 1, !.pc = "next"]
    /\ RunnerFrame

IterStep ==
    \/ IterPull
    \/ IterPulled
    \/ IterCheck
    \/ IterWake
    \/ IterYield
    \/ Checkpoint
    \/ CheckpointWake
    \/ BodyEnd
    \/ IterResume

\* --------------------------------------------------- TaskRunner.run
\* runner.py line 179: the body of the consumer's loop calls runner.run(func)
\* and run checks for an interrupt first
RunBefore ==
    /\ it.pc = "body"
    /\ it' = [it EXCEPT !.result = "none",
                        !.pc = CASE CheckInterrupt = "stop" -> "run_raised"
                                 [] CheckInterrupt = "block" -> "run_blocked"
                                 [] OTHER -> "run_call"]
    /\ CheckFrame

\* the check of line 179, blocked in a pause
RunBeforeWake ==
    /\ it.pc = "run_blocked"
    /\ WakeUp # "block"
    /\ it' = [it EXCEPT !.woken = WakeUp,
                        !.pc = IF WakeUp = "stop" THEN "run_raised" ELSE "run_call"]
    /\ CheckFrame

\* runner.py line 180: func(*args, **kwargs) is entered
RunCall ==
    /\ it.pc = "run_call"
    /\ it' = [it EXCEPT !.invoked = @ + 1, !.pc = "run_func"]
    /\ RunnerFrame

\* runner.py lines 180-182: what follows the return of func
AfterFuncUnchecked == "return"
AfterFunc == CheckInterrupt

\* runner.py lines 180-182: func returns its value, or raises and the exception
\* leaves run; after a return run checks again and then returns the value
RunAfter ==
    /\ it.pc = "run_func"
    /\ \/ /\ it' = [it EXCEPT !.pc = "func_raised"]
          /\ RunnerFrame
       \/ /\ it' = [it EXCEPT !.result = IF AfterFunc = "return" THEN "value"
                                          ELSE "none",
                              !.pc = CASE AfterFunc = "stop" -> "run_raised"
                                       [] AfterFunc = "block" -> "run_held"
                                       [] OTHER -> "run_returned"]
          /\ CheckFrame

\* the check of line 181, blocked in a pause
RunAfterWake ==
    /\ it.pc = "run_held"
    /\ WakeUp # "block"
    /\ it' = [it EXCEPT !.woken = WakeUp,
                        !.result = IF WakeUp = "stop" THEN "none" ELSE "value",
                        !.pc = IF WakeUp = "stop" THEN "run_raised"
                               ELSE "run_returned"]
    /\ CheckFrame

\* runner.py lines 87-95: the body reads runner.is_paused and
\* runner.is_stopping
ReadFlags ==
    /\ it.pc = "body"
    /\ it' = [it EXCEPT !.is_paused = (source = "paused"),
                        !.is_stopping = (source = "stopping")]
    /\ CheckFrame

RunStep ==
    \/ RunBefore
    \/ RunBeforeWake
    \/ RunCall
    \/ RunAfter
    \/ RunAfterWake
    \/ ReadFlags

\* A loop  for item in runner.iterate(items): ...  over a sequence of up to
\* MaxItems elements, while commands reach the cancellation source.
InitRunner ==
    /\ InitUploader({{Ok(2, 1)}}, {1}, {"none"}, {<<1>>},
                    Limits(1, 0, 0, {FALSE}), {})
    /\ source = "running"
    /\ ncmds = 0
    /\ \E n \in 0 .. MaxItems : it = [NoIter EXCEPT !.pc = "next", !.items = n]
    /\ par = NoRun

NextRunner == CommandStep \/ IterStep

\* the same loop with a body that may also call runner.run(func) and read the
\* runner's two flags
NextRun == CommandStep \/ IterStep \/ RunStep

SpecRun == InitRunner /\ [][NextRun]_vars

SpecRunner == InitRunner /\ [][NextRunner]_vars /\ WF_vars(IterStep)

(* SpecProgress: one client thread, a progress callback that returns, an    *)
(* upload function that succeeds or returns a false result, and a seeded    *)
(* identifier, so that a batch can hold duplicates only.                    *)
InitProgress == InitWith({{Ok(2, 1), Refused}}, {MaxWorkers}, {"returns"}, SomeBatches,
                         Limits(MaxCalls, 1, MaxSeeds, {FALSE}), {"c1"})

NextProgress ==
    \/ \E c \in Clients : SeedStep(c) \/ ClientStep(c)
    \/ \E t \in Threads : DispatcherStep(t) \/ PoolStep(t)

SpecProgress == InitProgress /\ [][NextProgress]_vars

(* SpecResume: a session resumed from the identifiers {1, 2} of an earlier   *)
(* one: one client thread, at most one seeding, two batches that share the  *)
(* identifier 3, an upload function that always succeeds, a graceful        *)
(* finish.                                                                  *)
InitResume ==
    InitWith({{Ok(2, 1)}}, {MaxWorkers}, {"none"}, {<<1, 2, 3>>, <<3>>},
             [Limits(MaxCalls, 1, MaxSeeds, {FALSE}) EXCEPT !.seed_sets = {{1, 2}}],
             {"c1"})

NextResume ==
    \/ \E c \in Clients : SeedStep(c) \/ ClientStep(c)
    \/ \E t \in Threads : DispatcherStep(t) \/ PoolStep(t)

SpecResume == InitResume /\ [][NextResume]_vars

\* =========================================================================
\* A run of a parser that has an uploader.  par.log is the sequence of calls
\* the run makes on the uploader; par.ended says how the run was left.
ParFrame == UNCHANGED <<cfgVars, objVars, thrVars, cliVars, histVars,
                        source, ncmds, it>>

Called(what) == Append(par.log, what)

\* api_parser.py lines 192-194: the head of the page loop and its
\* check_interrupt; lines 252-256: the handler of StopInterrupt
ApiLoop ==
    /\ par.pc = "a_loop"
    /\ par' = IF par.page > par.pages
              THEN [par EXCEPT !.pc = "a_finally"]
              ELSE CASE CheckInterrupt = "stop" ->
                          [par EXCEPT !.aborted = TRUE, !.ended = "stop",
                                      !.pc = "a_finally"]
                     [] CheckInterrupt = "block" -> [par EXCEPT !.pc = "a_blocked"]
                     [] OTHER -> [par EXCEPT !.pc = "a_fetch"]
    /\ ParFrame

ApiWake ==
    /\ par.pc = "a_blocked"
    /\ WakeUp # "block"
    /\ par' = IF WakeUp = "stop"
              THEN [par EXCEPT !.aborted = TRUE, !.ended = "stop", !.pc = "a_finally"]
              ELSE [par EXCEPT !.pc = "a_fetch"]
    /\ ParFrame

\* api_parser.py lines 198-239: the page is fetched and uploaded, or holds no
\* items (break), or an exception other than StopInterrupt is raised
ApiFetch ==
    /\ par.pc = "a_fetch"
    /\ \/ par' = [par EXCEPT !.log = Called("upload_batch"), !.page = @ + 1,
                             !.pc = "a_loop"]
       \/ par' = [par EXCEPT !.pc = "a_finally"]
       \/ par' = [par EXCEPT !.ended = "error", !.pc = "a_finally"]
    /\ ParFrame

\* api_parser.py lines 258-268: finally, finish(duration, force=aborted)
ApiFinally ==
    /\ par.pc = "a_finally"
    /\ par' = [par EXCEPT !.log = Called(IF par.aborted THEN "finish_forced"
                                         ELSE "finish_graceful"),
                          !.pc = "exited"]
    /\ ParFrame

\* browser_parser.py lines 208-212: fetch_listing returns items, or none
\* (return), or raises
BrowserListing ==
    /\ par.pc = "b_listing"
    /\ \/ par' = [par EXCEPT !.pc = "b_next"]
       \/ par' = [par EXCEPT !.ended = "no_items", !.pc = "exited"]
       \/ par' = [par EXCEPT !.ended = "error", !.pc = "exited"]
    /\ ParFrame

\* browser_parser.py lines 242, 271: the loop over self.m.runner.iterate(items);
\* a StopInterrupt raised by its check leaves the loop, the with block of line
\* 201 and run
BrowserNext ==
    /\ par.pc = "b_next"
    /\ par' = IF par.page > par.pages
              THEN [par EXCEPT !.pc = "b_finish"]
              ELSE CASE CheckInterrupt = "stop" ->
                          [par EXCEPT !.ended = "stop", !.pc = "exited"]
                     [] CheckInterrupt = "block" -> [par EXCEPT !.pc = "b_blocked"]
                     [] OTHER -> [par EXCEPT !.pc = "b_item"]
    /\ ParFrame

BrowserWake ==
    /\ par.pc = "b_blocked"
    /\ WakeUp # "block"
    /\ par' = IF WakeUp = "stop"
              THEN [par EXCEPT !.ended = "stop", !.pc = "exited"]
              ELSE [par EXCEPT !.pc = "b_item"]
    /\ ParFrame

\* base.py lines 115-121: _flush_upload_buffer hands the buffer to
\* upload_batch, which keeps items.copy() (upload.py line 219), and binds a new
\* empty list
FlushKeepsBuffer(r) ==
    IF ~r.uploader \/ r.upload_buffer = <<>> THEN r
    ELSE [r EXCEPT !.handed = Append(@, r.upload_buffer),
                   !.log = Append(r.log, "upload_batch")]

FlushUploadBuffer(r) ==
    IF ~r.uploader \/ r.upload_buffer = <<>> THEN r
    ELSE [r EXCEPT !.handed = Append(@, r.upload_buffer),
                   !.upload_buffer = <<>>,
                   !.log = Append(r.log, "upload_batch")]

\* base.py lines 105-113: _upload_item appends the item (here the number of
\* the item being processed) to the buffer and flushes it when it holds
\* UPLOAD_BATCH_SIZE items
UploadItem(r) ==
    IF ~r.uploader THEN r
    ELSE LET buffered == [r EXCEPT !.upload_buffer = Append(@, r.page)]
         IN  IF r.batch_size > 0 /\ Len(buffered.upload_buffer) >= r.batch_size
             THEN FlushUploadBuffer(buffered)
             ELSE buffered

\* browser_parser.py lines 243-259, 273-306: one item is processed and handed
\* to _upload_item, or an exception is raised: _process_with_details catches
\* it (line 304), _process_listing_only does not
BrowserItem ==
    /\ par.pc = "b_item"
    /\ \/ par' = [UploadItem(par) EXCEPT !.page = @ + 1, !.pc = "b_next"]
       \/ par' = IF par.skip_details
                 THEN [par EXCEPT !.ended = "error", !.pc = "exited"]
                 ELSE [par EXCEPT !.page = @ + 1, !.pc = "b_next"]
    /\ ParFrame

\* browser_parser.py lines 226-228 and base.py lines 123-134: _finish_upload
\* flushes the buffer and calls finish(duration, force=False)
BrowserFinish ==
    /\ par.pc = "b_finish"
    /\ par' = [FlushUploadBuffer(par) EXCEPT
                  !.log = Append(FlushUploadBuffer(par).log, "finish_graceful"),
                  !.pc = "exited"]
    /\ ParFrame

ParserStep ==
    \/ ApiLoop
    \/ ApiWake
    \/ ApiFetch
    \/ ApiFinally
    \/ BrowserListing
    \/ BrowserNext
    \/ BrowserWake
    \/ BrowserItem
    \/ BrowserFinish

NewRun(kind, skip_details, pages) ==
    [pc |-> IF kind = "api" THEN "a_loop" ELSE "b_listing", kind |-> kind,
     skip_details |-> skip_details, pages |-> pages, page |-> 1,
     aborted |-> FALSE, ended |-> "normal", log |-> <<>>,
     uploader |-> TRUE, batch_size |-> BatchSize, upload_buffer |-> <<>>,
     handed |-> <<>>, last |-> "none"]

\* One run of BaseAPIParser.run_async or of BaseBrowserParser.run, while
\* commands reach the cancellation source.
InitParser ==
    /\ InitUploader({{Ok(2, 1)}}, {1}, {"none"}, {<<1>>},
                    Limits(1, 0, 0, {FALSE}), {})
    /\ source = "running"
    /\ ncmds = 0
    /\ it = NoIter
    /\ \E kind \in {"api", "browser"}, skip_details \in BOOLEAN, pages \in 1 .. MaxPages :
          par = NewRun(kind, skip_details, pages)

NextParser == CommandStep \/ ParserStep

SpecParser == InitParser /\ [][NextParser]_vars /\ WF_vars(ParserStep)

\* ------------------------------------------- the upload buffer by itself
\* base.py lines 105-113: a call of _upload_item for the next item
BufferItem ==
    /\ par.pc = "calls"
    /\ par.page <= par.pages
    /\ par' = [UploadItem(par) EXCEPT !.page = @ + 1, !.last = "item"]
    /\ ParFrame

\* base.py lines 115-121: a call of _flush_upload_buffer (as in
\* browser_parser.py line 309)
BufferFlush ==
    /\ par.pc = "calls"
    /\ par.last # "flush"
    /\ par' = [FlushUploadBuffer(par) EXCEPT !.last = "flush"]
    /\ ParFrame

\* base.py lines 123-134: _finish_upload flushes and, with an uploader, calls
\* finish
BufferFinish ==
    /\ par.pc = "calls"
    /\ par' = [FlushUploadBuffer(par) EXCEPT
                  !.log = IF par.uploader
                          THEN Append(FlushUploadBuffer(par).log, "finish_graceful")
                          ELSE @,
                  !.last = "finish",
                  !.pc = "exited"]
    /\ ParFrame

(* SpecBuffer: a parser subclass with UPLOAD_BATCH_SIZE 0 .. MaxBatch, with *)
(* or without an uploader, passes up to MaxItems items to _upload_item,     *)
(* flushes when it likes and ends with _finish_upload.                      *)
InitBuffer ==
    /\ InitUploader({{Ok(2, 1)}}, {1}, {"none"}, {<<1>>},
                    Limits(1, 0, 0, {FALSE}), {})
    /\ source = "running"
    /\ ncmds = 0
    /\ it = NoIter
    /\ \E n \in 0 .. MaxItems, size \in 0 .. MaxBatch, uploader \in BOOLEAN :
          par = [NewRun("direct", FALSE, n) EXCEPT !.pc = "calls",
                                                   !.batch_size = size,
                                                   !.uploader = uploader]

NextBuffer == BufferItem \/ BufferFlush \/ BufferFinish

SpecBuffer == InitBuffer /\ [][NextBuffer]_vars

\* ------------------------------- the backoff sleep under run_continuous
\* cli.py lines 76-88 and 361-373: handle_run patches time.sleep for the time
\* run_func runs; _current_monitor is set while the patch is in place
Patched == par.pc = "hr_run"

\* cli.py lines 68-73: the sleep is cut in chunks of min(0.5, remaining)
\* seconds
ChunksOf(seconds) == 2 * seconds

\* upload.py line 165 and cli.py lines 62-68: time.sleep is looked up at the
\* call; the patched one enters its loop when a monitor is set
SleepEnter(t, k) ==
    /\ thread[t] = "running"
    /\ k \in DOMAIN dsp[t].fut
    /\ dsp[t].fut[k].st = "backoff"
    /\ Patched
    /\ dsp' = [dsp EXCEPT ![t].fut[k].st = "sleeping", ![t].fut[k].chunk = 0]
    /\ UNCHANGED <<cfgVars, runVars, objVars, thread, cliVars, histVars>>

\* cli.py lines 69-73, one turn of the loop: check_interrupt(), then a chunk
\* of sleep.  A stop raises StopInterrupt, which leaves the handler of upload.py
\* lines 159-168 and _upload_one; so does the AttributeError of line 70 when
\* _unpatch_sleep has set _current_monitor to None meanwhile.  When nothing
\* remains the sleep returns and the next attempt calls upload_func.
SleepChunk(t, k) ==
    /\ thread[t] = "running"
    /\ k \in DOMAIN dsp[t].fut
    /\ dsp[t].fut[k].st = "sleeping"
    /\ LET f == dsp[t].fut[k]
       IN  IF f.chunk = ChunksOf(f.slept[Len(f.slept)])
           THEN /\ dsp' = [dsp EXCEPT ![t].fut[k].st = "calling",
                                      ![t].fut[k].attempt = @ + 1,
                                      ![t].fut[k].chunk = 0]
                /\ calls' = Note(calls, RecordOf(t, k)[1], RecordOf(t, k)[2],
                                 InFlight)
           ELSE /\ dsp' = [dsp EXCEPT ![t].fut[k] =
                              IF ~Patched \/ CheckInterrupt = "stop"
                              THEN [@ EXCEPT !.st = "raised"]
                              ELSE IF CheckInterrupt = "block"
                                   THEN [@ EXCEPT !.st = "held"]
                                   ELSE [@ EXCEPT !.chunk = @ + 1]]
                /\ UNCHANGED calls
    /\ UNCHANGED <<cfgVars, runVars, objVars, thread, cliVars,
                   seeded, enq, counted, before, begun, done, snap,
                   progress>>

\* the check of cli.py line 70, blocked in a pause
SleepWake(t, k) ==
    /\ thread[t] = "running"
    /\ k \in DOMAIN dsp[t].fut
    /\ dsp[t].fut[k].st = "held"
    /\ WakeUp # "block"
    /\ dsp' = [dsp EXCEPT ![t].fut[k] =
                  IF WakeUp = "stop" THEN [@ EXCEPT !.st = "raised"]
                  ELSE [@ EXCEPT !.st = "sleeping", !.chunk = @ + 1]]
    /\ UNCHANGED <<cfgVars, runVars, objVars, thread, cliVars, histVars>>

\* ------------------------------------------- run_continuous.handle_run
\* cli.py lines 353-361: a "run" command is refused while paused; otherwise
\* time.sleep is patched and run_func called
HandleRun ==
    /\ par.pc = "hr_wait"
    /\ par' = [par EXCEPT !.pc = IF source = "paused" THEN "hr_wait" ELSE "hr_run",
                          !.refused = (source = "paused"),
                          !.began = source]
    /\ par' # par
    /\ ParFrame

\* cli.py lines 363-374: run_func has returned or raised; the patch is removed
HandleRunEnd ==
    /\ par.pc = "hr_run"
    /\ \A c \in Clients : cl[c].pc \in {"idle", "off"}
    /\ par' = [par EXCEPT !.pc = "hr_done"]
    /\ ParFrame

\* the steps of a delivery worker in its backoff sleep
SleepStep(t) ==
    \E k \in 1 .. MaxLen :
        \/ SleepEnter(t, k)
        \/ SleepChunk(t, k)
        \/ SleepWake(t, k)
        \/ ~Patched /\ Retry(t, k)

\* cli.py line 363: run_func(params), the client thread of the uploader
RunFuncStep(c) == Patched /\ (SeedStep(c) \/ ClientStep(c) \/ AbortStep(c))

(* SpecSleep: one run under run_continuous.  run_func is the client thread:  *)
(* it enqueues a batch of one record and shuts down, while pause, resume    *)
(* and stop commands arrive; the upload function succeeds or raises a 503.  *)
InitSleep ==
    /\ InitUploader({{Ok(2, 1), Raises(Msg503)}}, {1}, {"none"}, {<<1>>},
                    Limits(1, 1, MaxSeeds, BOOLEAN), {"c1"})
    /\ source = "running"
    /\ ncmds = 0
    /\ it = NoIter
    /\ par = [pc |-> "hr_wait", refused |-> FALSE, began |-> "none"]

NextSleep ==
    \/ CommandStep
    \/ HandleRun
    \/ HandleRunEnd
    \/ \E c \in Clients : RunFuncStep(c)
    \/ \E t \in Threads :
          DispatcherStep(t) \/ PoolStep(t) \/ EscapeStep(t) \/ SleepStep(t)

SpecSleep == InitSleep /\ [][NextSleep]_vars

\* ------------------------------------------------ reading the history
EnqSet == {enq[k] : k \in 1 .. Len(enq)}
Positions(e) == 1 .. Len(e.items)
Attempted(p, pos) == calls[p][pos] # <<>>
TotalRecords == Cardinality({<<p, pos>> \in Pages \X (1 .. MaxLen) :
                                \E e \in EnqSet : e.page = p /\ pos \in Positions(e)})
CountedAs(what) == Cardinality({<<p, pos>> \in Pages \X (1 .. MaxLen) :
                                   counted[p][pos] = <<what>>})

\* _upload_one has returned for the record
UploadOneReturned(p, pos) ==
    \/ p \in done
    \/ \E t \in Threads : \E k \in DOMAIN dsp[t].fut :
          /\ dsp[t].task.page = p
          /\ dsp[t].to_upload[k] = pos
          /\ dsp[t].fut[k].st \in {"done", "collected"}

GracefulReturn(c) == cl[c].pc = "f_ret" /\ ~cl[c].force

\* ---------------------------------------------------------------- C1
\* C1 (as stated): when finish(force=False) returns, every record of every
\* batch enqueued before the call whose identifier is not in the
\* deduplication set has been passed to the upload function at least once.
C1_NoSilentDrop ==
    \A c \in Clients : GracefulReturn(c) =>
        \A e \in EnqSet : e.page \in snap[c].put =>
            \A pos \in Positions(e) :
                e.items[pos] \notin existing_ids => Attempted(e.page, pos)

\* C1 (amended): the same, for a finish(force=False) that found the dispatcher
\* thread alive when it was called.
C1_NoSilentDropWhileAlive ==
    \A c \in Clients : (GracefulReturn(c) /\ snap[c].alive) =>
        \A e \in EnqSet : e.page \in snap[c].put =>
            \A pos \in Positions(e) :
                e.items[pos] \notin existing_ids => Attempted(e.page, pos)

C1_Witness ==
    \E c \in Clients :
        /\ GracefulReturn(c) /\ snap[c].alive
        /\ Cardinality(snap[c].put) = 2
        /\ \A e \in EnqSet : \E pos \in Positions(e) : Attempted(e.page, pos)

\* ---------------------------------------------------------------- C2
\* C2: a record whose identifier was passed to add_existing_ids before its
\* batch was enqueued is never passed to the upload function; the only counter
\* ever incremented for it is skipped, at most once, and exactly once when the
\* dispatch of its batch has completed.
C2_SeededNeverUploaded ==
    \A e \in EnqSet : \A pos \in Positions(e) :
        e.items[pos] \in e.seeded =>
            /\ ~Attempted(e.page, pos)
            /\ counted[e.page][pos] \in {<<>>, <<"skipped">>}
            /\ e.page \in done => counted[e.page][pos] = <<"skipped">>

C2_Witness ==
    \E e \in EnqSet : \E pos, other \in Positions(e) :
        /\ e.items[pos] \in e.seeded
        /\ counted[e.page][pos] = <<"skipped">>
        /\ counted[e.page][other] = <<"success">>

\* ---------------------------------------------------------------- C3
\* C3 (as stated): at most one dispatcher thread is alive in every reachable
\* state, also when client threads make their first upload_batch call side by
\* side.
C3_SingleDispatcher ==
    Cardinality({t \in Threads : thread[t] = "running"}) <= 1

\* ---------------------------------------------------------------- C4
\* C4 (as stated): when finish(force=False), the first shutdown call of the
\* session, returns after batches were enqueued from several client threads,
\* with no upload_batch call overlapping it, items + skipped is the number of enqueued
\* records, success + failed = items, and skipped is the number of records
\* filtered out as duplicates.
C4_Accounting ==
    \A c \in Clients :
        (/\ GracefulReturn(c) /\ nshutdowns = 1
         /\ snap[c].quiet /\ Quiet(c) /\ snap[c].put = PagesOf(enq)) =>
            /\ stats["items"] = TotalRecords - CountedAs("skipped")
            /\ stats["success"] + stats["failed"] = stats["items"]
            /\ stats["skipped"] = CountedAs("skipped")

\* ---------------------------------------------------------------- C5
AllTransient(h) == h # <<>> /\ \A i \in 1 .. Len(h) : h[i] = "transient"

\* C5: no record gets more than MAX_RETRIES calls of the upload function; a
\* record all of whose calls raised a transient error has had exactly
\* MAX_RETRIES calls when _upload_one returns, and the only counter ever
\* incremented for it is failed, once.
C5_RetryBound ==
    \A e \in EnqSet : \A pos \in Positions(e) :
        LET h == calls[e.page][pos]
        IN  /\ Len(h) <= MAX_RETRIES
            /\ AllTransient(h) =>
                  /\ UploadOneReturned(e.page, pos) => Len(h) = MAX_RETRIES
                  /\ counted[e.page][pos] \in {<<>>, <<"failed">>}
                  /\ e.page \in done => counted[e.page][pos] = <<"failed">>

C5_Witness ==
    \E e \in EnqSet : \E pos \in Positions(e) :
        /\ calls[e.page][pos] = <<"transient", "transient", "transient">>
        /\ counted[e.page][pos] = <<"failed">>

\* ---------------------------------------------------------------- C6
\* C6: a call of the upload function that raises a non-transient error is the
\* last call for its record; when the first call does, the record has exactly
\* one call and is counted as failed, once.
C6_NoRetryOnPermanent ==
    \A e \in EnqSet : \A pos \in Positions(e) :
        LET h == calls[e.page][pos]
        IN  /\ \A i \in 1 .. Len(h) : h[i] = "permanent" => i = Len(h)
            /\ (h # <<>> /\ h[1] = "permanent") =>
                  /\ Len(h) = 1
                  /\ UploadOneReturned(e.page, pos)
                  /\ counted[e.page][pos] \in {<<>>, <<"failed">>}
                  /\ e.page \in done => counted[e.page][pos] = <<"failed">>

C6_Witness ==
    \E e \in EnqSet : \E pos \in Positions(e) :
        /\ calls[e.page][pos] = <<"permanent">>
        /\ counted[e.page][pos] = <<"failed">>

\* ---------------------------------------------------------------- C7
\* C7 (as stated): a batch that is in the queue when abort() sets the stop
\* flag is never dispatched: the upload function is called for none of its
\* records and no counter is incremented for it.
C7_QueuedAtAbortDiscarded ==
    \A c \in Clients : snap[c].forced =>
        \A p \in snap[c].queued :
            /\ p \notin begun
            /\ \A pos \in 1 .. MaxLen : calls[p][pos] = <<>> /\ counted[p][pos] = <<>>

\* ---------------------------------------------------------------- C8
InForcedShutdown(c) ==
    \/ cl[c].pc \in {"a_set", "a_drain", "a_check", "a_put", "a_join", "a_ret"}
    \/ cl[c].pc = "f_ret" /\ cl[c].force

\* C8: a client thread that is inside abort() or finish(force=True) returns
\* to its caller, whether or not the upload function calls of the batch in
\* flight ever return.
C8_ForcedShutdownReturns ==
    \A c \in Clients : InForcedShutdown(c) ~> (cl[c].pc = "idle")

C8_Witness ==
    \E c \in Clients :
        /\ cl[c].pc = "a_ret" \/ (cl[c].pc = "f_ret" /\ cl[c].force)
        /\ IsAlive(upload_thread)
        /\ \E t \in Threads : \E k \in DOMAIN dsp[t].fut : dsp[t].fut[k].st = "calling"

\* ---------------------------------------------------------------- C9
Discarded(p) == p \notin begun /\ p \notin PagesOf(upload_queue)

\* C9 (as stated): a batch whose upload_batch call completed before the call
\* for another batch began has completed its dispatch before the dispatch of
\* the other begins, unless abort() removed it from the queue.
C9_FifoDispatch ==
    \A a, b \in Pages :
        (a \in before[b] /\ b \in begun) => (a \in done \/ Discarded(a))

\* ---------------------------------------------------------------- C10
CallsInProgress ==
    {tk \in Threads \X (1 .. MaxLen) :
        tk[2] \in DOMAIN dsp[tk[1]].fut /\ dsp[tk[1]].fut[tk[2]].st = "calling"}
HasStarted(t) == \E k \in DOMAIN dsp[t].fut : dsp[t].fut[k].st # "pending"
HasUnfinished(t) ==
    \E k \in DOMAIN dsp[t].fut : dsp[t].fut[k].st \in {"pending", "calling", "backoff"}

\* C10 (as stated): at most parallel_workers calls of the upload function are
\* in progress, all for records of one batch, and no call for a record of
\* another batch has started while a record of the batch is unfinished.
C10_BatchScoped ==
    /\ Cardinality(CallsInProgress) <= parallel_workers
    /\ \A x, y \in CallsInProgress : x[1] = y[1]
    /\ \A t, u \in Threads : (t # u /\ HasStarted(t)) => ~HasUnfinished(u)

\* ---------------------------------------------------------------- C11
\* the step in which client c calls upload_batch with an empty list
EmptyCall(c) ==
    /\ ncalls' = ncalls + 1
    /\ cl'[c].page = ncalls'
    /\ cl'[c].items = <<>>

\* C11: a call of upload_batch with an empty list returns at once and changes
\* no Statistics counter, puts nothing on the queue, starts no dispatcher
\* thread and leaves the session-started flag as it was.
C11_EmptyBatchNoOp ==
    [][\A c \in Clients : EmptyCall(c) =>
          /\ cl'[c].pc = "idle"
          /\ UNCHANGED <<objVars, thrVars, enq>>]_vars

\* an empty call has returned in a session whose dispatcher has counted a page
C11_Witness ==
    \E c \in Clients :
        /\ cl[c].pc = "idle" /\ cl[c].page > 0 /\ cl[c].items = <<>>
        /\ session_started /\ stats["pages"] > 0

\* ---------------------------------------------------------------- C12
Outcome(h) == IF h[Len(h)] = "ok" THEN "success" ELSE "failed"

\* C12: a record whose delivery failed is counted in failed, once, and only
\* there; when the dispatch of a batch has completed every record of it is
\* either a skipped duplicate or has been attempted and counted by its
\* outcome; the counters success and failed are the numbers of records so
\* counted; and a graceful finish that found the dispatcher alive returns with
\* every batch enqueued before it dispatched.
C12_FailureIsolated ==
    /\ \A e \in EnqSet : \A pos \in Positions(e) :
          LET p == e.page
              h == calls[p][pos]
          IN  /\ (h # <<>> /\ UploadOneReturned(p, pos) /\ Outcome(h) = "failed") =>
                    counted[p][pos] \in {<<>>, <<"failed">>}
              /\ p \in done =>
                    \/ h = <<>> /\ counted[p][pos] = <<"skipped">>
                    \/ h # <<>> /\ counted[p][pos] = <<Outcome(h)>>
    /\ stats["failed"] = CountedAs("failed")
    /\ stats["success"] = CountedAs("success")
    /\ \A c \in Clients : (GracefulReturn(c) /\ snap[c].alive) => snap[c].put \subseteq done

C12_Witness ==
    \E c \in Clients :
        /\ GracefulReturn(c) /\ snap[c].alive /\ snap[c].put = {1, 2}
        /\ counted[1][1] = <<"failed">> /\ counted[1][2] = <<"success">>
        /\ counted[2][1] = <<"failed">> /\ counted[2][2] = <<"skipped">>

\* ---------------------------------------------------------------- C13
\* every call of the upload function made for the batch has come to its end
WorkersCompleted(e) ==
    \A pos \in Positions(e) :
        LET h == calls[e.page][pos]
        IN  \/ counted[e.page][pos] = <<"skipped">> /\ h = <<>>
            \/ h # <<>> /\ h[Len(h)] # InFlight

InCheck == {"blocked", "cp_blocked"}
CheckReturned == {"yield", "cp_returned"}
CheckRaised == {"interrupted", "cp_raised"}

C17_CheckBeforeEveryYield ==
    /\ it.passed \in {it.yielded, it.yielded + 1}
    /\ (it.pc = "yield") <=> (it.passed = it.yielded + 1)
    /\ it.checks \in {it.passed, it.passed + 1}
    /\ it.checks <= it.yielded + 1
    /\ source = "stopping" => it.yielded <= it.passed_at_stop

\* two elements were yielded, then a stop was requested and the third check
\* raised
C17_Witness ==
    /\ it.pc = "interrupted"
    /\ it.yielded = 2 /\ it.passed_at_stop = 2 /\ it.checks = 3

\* ---------------------------------------------------------------- C18
\* C18 (as stated): iterate pulls an element from the underlying sequence only
\* when the consumer asks for the next one, never pulls more than the
\* sequence holds, and when a stop interrupts the iteration every element
\* that was not yielded has not been pulled.
C18_LazyExactlyOnce ==
    /\ it.pulled <= it.items
    /\ it.pulled <= it.yielded + 1
    /\ it.pc \in CheckRaised => it.pulled = it.yielded

\* ---------------------------------------------------------------- C14
FinishCalls == {"finish_forced", "finish_graceful"}
LogHas(what) == \E i \in 1 .. Len(par.log) : par.log[i] = what

\* C14 (as stated): a parser run that a StopInterrupt has left has called the
\* uploader's finish with force=True, and has not called it with force=False.
C14_StopForcesFinish ==
    (par.pc = "exited" /\ par.ended = "stop") =>
        LogHas("finish_forced") /\ ~LogHas("finish_graceful")

\* ---------------------------------------------------------------- C15
\* C15 (as stated): a parser run with an uploader has called the uploader's
\* finish, as the last call it makes on it, whatever way the run was left.
C15_RunEndsWithFinish ==
    par.pc = "exited" =>
        par.log # <<>> /\ par.log[Len(par.log)] \in FinishCalls

\* ---------------------------------------------------------------- C19
\* no dispatcher is between taking a batch from the queue and the return of
\* _upload_batch_sync
NoBatchInFlight == \A t \in Threads : dsp[t].pc \in {"none", "loop", "get", "task_done"}

\* what the holder of the value handed to a callback reads in it now
Deref(h) == IF h.ref = "self.stats" THEN stats ELSE h.seen

OncePerBatch == NoBatchInFlight => Len(progress) = stats["pages"]
HandedSnapshot == \A i \in 1 .. Len(progress) : Deref(progress[i]) = progress[i].seen

\* C19 (as stated): with a progress callback configured, once no batch is in
\* flight the callback has been called as many times as stats.pages counts,
\* a batch of duplicates included, and the Statistics value handed to each
\* call still reads as it did during the call.
C19_ProgressPerBatch ==
    on_progress = "returns" => OncePerBatch /\ HandedSnapshot

\* ---------------------------------------------------------------- C20
Records == {<<e, pos>> \in EnqSet \X (1 .. MaxLen) : pos \in Positions(e)}
WasSeeded(e, pos) == e.items[pos] \in e.seeded
InEarlierBatch(e, pos) ==
    \E o \in EnqSet : o.page < e.page /\ \E k \in Positions(o) : o.items[k] = e.items[pos]
SeededFirst == \A e \in EnqSet : e.seeded = seeded
Accounts(dups) ==
    /\ stats["skipped"] = Cardinality(dups)
    /\ stats["items"] = Cardinality(Records \ dups)
    /\ stats["success"] = Cardinality(Records \ dups)
    /\ stats["failed"] = 0

\* C20 (as stated): after a graceful finish with an upload function that
\* always succeeds and a deduplication set seeded before the first batch,
\* skipped is the number of enqueued records whose identifier was seeded,
\* items and success are the number of the other records, and failed is 0.
C20_SeededAccounting ==
    \A c \in Clients : (GracefulReturn(c) /\ SeededFirst) =>
        Accounts({r \in Records : WasSeeded(r[1], r[2])})

\* C20 (amended): the records skipped are those whose identifier was seeded
\* or is the identifier of a record of an earlier batch.
C20_DuplicateAccounting ==
    \A c \in Clients : (GracefulReturn(c) /\ SeededFirst) =>
        Accounts({r \in Records : WasSeeded(r[1], r[2]) \/ InEarlierBatch(r[1], r[2])})

\* the scenario: seed {1, 2}, one batch [1, 2, 3], graceful finish
C20_Witness ==
    /\ \E c \in Clients : GracefulReturn(c)
    /\ seeded = {1, 2}
    /\ Len(enq) = 1 /\ enq[1].items = <<1, 2, 3>> /\ enq[1].seeded = {1, 2}
    /\ stats["items"] = 1 /\ stats["success"] = 1
    /\ stats["skipped"] = 2 /\ stats["failed"] = 0

\* ---------------------------------------------------------------- C21
\* C21: a call that returns success is the last call for its record and every
\* call before it raised a transient error, so a record that succeeds after k
\* transient errors has k + 1 calls, at most MAX_RETRIES, and is counted in
\* success only, once; a first transient error is followed by a second call;
\* a record of the same batch whose first call raises a non-transient error
\* has that one call and is counted in failed only, once.
C21_RetryThenSuccess ==
    \A e \in EnqSet : \A pos \in Positions(e) :
        LET h == calls[e.page][pos]
        IN  /\ (UploadOneReturned(e.page, pos) /\ h # <<>> /\ h[1] = "transient") =>
                  Len(h) > 1
            /\ (h # <<>> /\ h[Len(h)] = "ok") =>
                  /\ Len(h) <= MAX_RETRIES
                  /\ \A i \in 1 .. (Len(h) - 1) : h[i] = "transient"
                  /\ UploadOneReturned(e.page, pos)
                  /\ counted[e.page][pos] \in {<<>>, <<"success">>}
                  /\ e.page \in done => counted[e.page][pos] = <<"success">>
                  /\ \A other \in Positions(e) :
                        (calls[e.page][other] # <<>> /\ calls[e.page][other][1] = "permanent") =>
                            /\ Len(calls[e.page][other]) = 1
                            /\ counted[e.page][other] \in {<<>>, <<"failed">>}
                            /\ e.page \in done => counted[e.page][other] = <<"failed">>

\* the scenario: two 503 errors and a success for the first record, a 404
\* error for the second, and finish has returned
C21_Witness ==
    /\ \E c \in Clients : GracefulReturn(c)
    /\ \E e \in EnqSet :
          /\ e.items = <<1, 2>>
          /\ calls[e.page][1] = <<"transient", "transient", "ok">>
          /\ calls[e.page][2] = <<"permanent">>
          /\ counted[e.page][1] = <<"success">>
          /\ counted[e.page][2] = <<"failed">>
    /\ stats["success"] = 1 /\ stats["failed"] = 1

\* ---------------------------------------------------------------- C30
\* C30: a call of the upload function that returns a false result is the last
\* call for its record, also when the returned error message holds 503; when
\* the first call does, the record has exactly one call and is counted in
\* failed only, once.
C30_FalseResultTerminal ==
    \A e \in EnqSet : \A pos \in Positions(e) :
        LET h == calls[e.page][pos]
        IN  /\ \A i \in 1 .. Len(h) : h[i] = "refused" => i = Len(h)
            /\ (h # <<>> /\ h[1] = "refused") =>
                  /\ Len(h) = 1
                  /\ UploadOneReturned(e.page, pos)
                  /\ counted[e.page][pos] \in {<<>>, <<"failed">>}
                  /\ e.page \in done => counted[e.page][pos] = <<"failed">>

C30_Witness ==
    /\ IsTransient(Refused.msg)
    /\ \E e \in EnqSet : \E pos \in Positions(e) :
          /\ calls[e.page][pos] = <<"refused">>
          /\ counted[e.page][pos] = <<"failed">>

\* ---------------------------------------------------------------- C22
\* C22: a client thread that is inside upload_batch leaves it, with the batch
\* put on the queue, although neither the dispatcher nor any pool worker is
\* obliged to take a step.
C22_EnqueueNeverBlocks ==
    \A c \in Clients : \A n \in 0 .. MaxCalls :
        (InUploadBatch(c) /\ Len(enq) = n) ~> (cl[c].pc = "idle" /\ Len(enq) = n + 1)

\* upload_batch has returned while the dispatcher is inside a call of the
\* upload function for an earlier batch
C22_Witness ==
    /\ Len(enq) = 2
    /\ \A c \in Clients : cl[c].pc \in {"idle", "off"}
    /\ CallsInProgress # {}
    /\ Len(upload_queue) = 1

\* ---------------------------------------------------------------- C23
\* the last shutdown call of the client thread was abort() or the forced path
\* of finish, it has returned, and no upload_batch call was made since
ForcedReturned(c) ==
    /\ snap[c].forced /\ ~InForcedShutdown(c)
    /\ snap[c].put = PagesOf(enq) /\ ~InUploadBatch(c)

NoCallStarts ==
    \A p \in Pages : \A pos \in 1 .. MaxLen : Len(calls'[p][pos]) = Len(calls[p][pos])

\* C23 (as stated): once abort() or finish(force=True) has returned, and
\* while no further batch is enqueued, no counter of the Statistics changes
\* and no call of the upload function starts.
C23_ForcedReturnIsFinal ==
    [][(\E c \in Clients : ForcedReturned(c)) => (stats' = stats /\ NoCallStarts)]_vars

\* ---------------------------------------------------------------- C24
NoDelivery == NoBatchInFlight /\ CallsInProgress = {}

\* the dispatcher thread has ended, or stands before the sentinel, which is
\* all the queue holds
StoppedBySentinel ==
    \/ ~IsAlive(upload_thread)
    \/ /\ upload_queue = <<Sentinel>>
       /\ dsp[upload_thread].pc \in {"loop", "get"}
       /\ ~stop_event

\* the last shutdown call of the client thread was finish(force=False) with
\* the dispatcher thread alive, and it has returned
DrainedReturned(c) == snap[c].alive /\ ~snap[c].forced /\ ~cl[c].in_finish

\* C24 (as stated): when finish(force=False) returns, the queue holds no
\* batch, no delivery is in flight and the dispatcher thread has ended; the
\* Statistics do not change after the return while no further batch is
\* enqueued.
C24_DrainedAtReturn ==
    /\ [](\A c \in Clients : GracefulReturn(c) =>
             /\ PagesOf(upload_queue) = {}
             /\ NoDelivery
             /\ ~IsAlive(upload_thread))
    /\ [][(\E c \in Clients : /\ snap[c] # NoSnap /\ ~snap[c].forced /\ ~cl[c].in_finish
                               /\ snap[c].put = PagesOf(enq) /\ ~InUploadBatch(c))
             => stats' = stats]_vars

\* C24 (amended): when the dispatcher thread is alive at the call, at the
\* return the queue holds no batch, no delivery is in flight, and the
\* dispatcher thread has ended or has nothing left to do but take the
\* sentinel; the Statistics do not change after the return.
C24_DrainedWhenAlive ==
    /\ [](\A c \in Clients : (GracefulReturn(c) /\ snap[c].alive) =>
             /\ PagesOf(upload_queue) = {}
             /\ NoDelivery
             /\ StoppedBySentinel)
    /\ [][(\E c \in Clients : DrainedReturned(c)) => stats' = stats]_vars

\* finish(force=False) has returned after two batches were dispatched
C24_Witness ==
    /\ \E c \in Clients : GracefulReturn(c) /\ snap[c].alive
    /\ done = {1, 2}
    /\ stats["pages"] = 2
    /\ thread[upload_thread] = "dead"

\* ---------------------------------------------------------------- C25
\* the step is one of a dispatcher thread inside _upload_batch_sync
OnBatchPath ==
    /\ cl' = cl
    /\ \E t \in Threads :
          /\ dsp'[t] # dsp[t]
          /\ dsp[t].pc \in {"pages", "filter", "store"} \cup InPool

\* C25 (as stated): no step makes a counter of the Statistics smaller, and a
\* step that changes a counter is a step of the dispatcher inside
\* _upload_batch_sync, never one of upload_batch, add_existing_ids, finish or
\* abort.
C25_CountersMonotonic ==
    [][/\ \A k \in Counters : stats'[k] >= stats[k]
       /\ stats' # stats => OnBatchPath]_vars

\* ---------------------------------------------------------------- C26
AppendOnly == [][existing_ids \subseteq existing_ids']_vars
Delivered(item_id) ==
    \E e \in EnqSet : \E pos \in Positions(e) :
        /\ e.items[pos] = item_id
        /\ calls[e.page][pos] # <<>>
        /\ calls[e.page][pos][Len(calls[e.page][pos])] = "ok"

\* C26 (as stated): no step removes an identifier from the deduplication set,
\* an identifier in the set was seeded or the upload function returned
\* success for a record with it, and the identifier of a record counted as
\* failed is in the set only if it was seeded.
C26_AppendOnlyFailedNeverIn ==
    /\ AppendOnly
    /\ [](\A item_id \in existing_ids : item_id \in seeded \/ Delivered(item_id))
    /\ [](\A e \in EnqSet : \A pos \in Positions(e) :
             (counted[e.page][pos] = <<"failed">> /\ e.items[pos] \in existing_ids) =>
                 e.items[pos] \in seeded)

\* C26 (amended): no step removes an identifier from the deduplication set,
\* and an identifier in the set was seeded or the upload function returned
\* success for a record with it.
C26_AppendOnlyOnSuccess ==
    /\ AppendOnly
    /\ [](\A item_id \in existing_ids : item_id \in seeded \/ Delivered(item_id))

\* one record delivered and in the set, the other failed and not in the set
C26_Witness ==
    \E e \in EnqSet :
        /\ e.items = <<1, 2>> /\ e.seeded = {} /\ seeded = {}
        /\ counted[e.page][1] = <<"success">> /\ counted[e.page][2] = <<"failed">>
        /\ existing_ids = {1}

\* ---------------------------------------------------------------- C27
Started == {t \in Threads : thread[t] # "none"}
\* abort has set the stop flag, or finish is waiting for the queue or has put
\* the sentinel
ShutdownSignalled ==
    \/ stop_event
    \/ \E k \in 1 .. Len(upload_queue) : upload_queue[k] = Sentinel
    \/ \E c \in Clients : cl[c].pc \in {"f_join", "f_put"}

\* idle = 0, active = 1, draining = 2, stopped = 3
PipelineState ==
    IF Started = {} THEN 0
    ELSE IF \A t \in Started : thread[t] = "dead" THEN 3
    ELSE IF \E t \in Started : thread[t] = "running" /\ ~ShutdownSignalled THEN 1
    ELSE IF \E t \in Started : thread[t] = "running" THEN 2
    ELSE 1

\* C27 (as stated): the pipeline state never moves backwards; a dispatcher
\* thread exists only after a non-empty upload_batch has set the session
\* flag, and only one is ever created; once the dispatcher has exited no
\* batch is taken from the queue, no call of the upload function starts and
\* no counter changes.
C27_ForwardOnly ==
    /\ [][PipelineState' >= PipelineState]_vars
    /\ [](Started # {} =>
             /\ session_started
             /\ enq # <<>> \/ \E c \in Clients : InUploadBatch(c) /\ cl[c].items # <<>>)
    /\ [](Cardinality(Started) <= 1)
    /\ [][(\E t \in Threads : thread[t] = "dead") =>
             /\ begun' = begun /\ stats' = stats /\ NoCallStarts
             /\ \A t \in Threads : thread'[t] # "running"]_vars

\* ---------------------------------------------------------------- C28
AbortReturns(c) == cl[c].pc = "a_ret"
ForcedFinishReturns(c) == cl[c].pc = "f_ret" /\ cl[c].force

\* what abort() leaves behind when no other client thread is inside a call:
\* the stop flag set and no batch in the queue
AbortPost == stop_event /\ PagesOf(upload_queue) = {}

\* C28 (as stated): finish(force=True) leaves at its return what abort()
\* leaves at its return, the stop flag set and the queue without a batch,
\* whatever the state it was called in.
C28_ForcedFinishAsAbort ==
    \A c \in Clients :
        /\ AbortReturns(c) => AbortPost
        /\ ForcedFinishReturns(c) => AbortPost

\* C28 (amended): abort() always leaves the stop flag set and the queue
\* without a batch; finish(force=True) does when the dispatcher thread was
\* alive at the call.
C28_ForcedFinishAsAbortWhenAlive ==
    \A c \in Clients :
        /\ AbortReturns(c) => AbortPost
        /\ (ForcedFinishReturns(c) /\ snap[c].alive) => AbortPost /\ snap[c].forced

\* finish(force=True) returns after it removed a batch from the queue
C28_Witness ==
    \E c \in Clients :
        /\ ForcedFinishReturns(c) /\ snap[c].alive
        /\ snap[c].queued # {}
        /\ \A p \in snap[c].queued : p \notin begun

\* ---------------------------------------------------------------- C29
\* the step starts a call of the upload function for future k of dispatcher t
CallStarts(t, k) ==
    /\ k \in DOMAIN dsp[t].fut /\ k \in DOMAIN dsp'[t].fut
    /\ dsp[t].fut[k].st \in {"pending", "backoff"}
    /\ dsp'[t].fut[k].st = "calling"

\* C29 (as stated): no call of the upload function starts for a record whose
\* identifier is in the deduplication set at that moment.
C29_WorkerFilters ==
    [][\A t \in Threads : \A k \in 1 .. MaxLen :
          CallStarts(t, k) =>
              dsp[t].task.items[dsp[t].to_upload[k]] \notin existing_ids]_vars

\* =========================================================================
\* C31: once the stop flag is set, a running dispatcher thread eventually
\* terminates, whether or not anything (a task or the sentinel) is put on the
\* queue afterwards: its get() times out and the loop tests the flag again.
C31_StopSeenOnEmptyQueue ==
    \A t \in Threads :
        (stop_event /\ thread[t] = "running") ~> (thread[t] = "dead")

\* the dispatcher has ended on the flag alone: abort() has set the flag and has
\* not reached its put, and no sentinel was put before
C31_Witness ==
    \E c \in Clients :
        /\ nshutdowns = 1
        /\ cl[c].pc \in {"a_drain", "a_check"}
        /\ snap[c].alive
        /\ upload_queue = <<>>
        /\ upload_thread # NoThread
        /\ thread[upload_thread] = "dead"

\* =========================================================================
\* the attempts of a record after which _upload_one waits
Waited(h) ==
    Cardinality({k \in 1 .. Len(h) : h[k] = "transient" /\ k <= MAX_RETRIES - 1})

\* C32: the waits of a delivery worker are RETRY_DELAY x 1, RETRY_DELAY x 2, ...
\* in this order, one after each failed attempt k <= MAX_RETRIES - 1 that
\* raised a transient error, and none after the last attempt, after a
\* non-transient error or after a returned result.
C32_LinearBackoff ==
    \A t \in Threads : \A k \in DOMAIN dsp[t].fut :
        LET f == dsp[t].fut[k]
            h == calls[RecordOf(t, k)[1]][RecordOf(t, k)[2]]
        IN  /\ f.slept = [j \in 1 .. Len(f.slept) |-> RETRY_DELAY * j]
            /\ Len(f.slept) = Waited(h)
            /\ Len(f.slept) <= MAX_RETRIES - 1

\* a record given up after MAX_RETRIES transient errors: two waits, 2 and 4
C32_Witness ==
    \E t \in Threads : \E k \in DOMAIN dsp[t].fut :
        /\ dsp[t].fut[k].st = "done"
        /\ ~dsp[t].fut[k].success
        /\ dsp[t].fut[k].slept = <<RETRY_DELAY, RETRY_DELAY * 2>>
        /\ calls[RecordOf(t, k)[1]][RecordOf(t, k)[2]]
               = <<"transient", "transient", "transient">>

\* =========================================================================
\* the message every call of the upload function raises (SpecClassify)
RaisedMessage == (CHOOSE o \in upload_func : TRUE).msg

HasMarker(msg) ==
    \/ IsInfix(<<"5", "0", "2">>, msg)
    \/ IsInfix(<<"5", "0", "3">>, msg)
    \/ IsInfix(<<"5", "0", "4">>, msg)

\* C33 (as stated): while attempts are left, a raised error is retried if and
\* only if its message contains 502, 503 or 504, wherever in the message the
\* substring occurs.
C33_MarkerAnywhere ==
    \A t \in Threads : \A k \in DOMAIN dsp[t].fut :
        LET f == dsp[t].fut[k]
        IN  (f.st \in {"backoff", "done"} /\ f.attempt < MAX_RETRIES - 1)
                => (f.st = "backoff" <=> HasMarker(RaisedMessage))

EntersRun == it.pc = "body" /\ it'.pc \in {"run_raised", "run_blocked", "run_call"}
FuncReturns == it.pc = "run_func" /\ it'.pc \in {"run_raised", "run_held", "run_returned"}

\* C35: TaskRunner.run checks before and after the function.  A run entered
\* while a stop is requested (or stopped while it waits in a pause) raises
\* without invoking the function; a function that returns while a stop is
\* requested has its value discarded and the run raises the stop signal.
C35_RunChecksBeforeAndAfter ==
    /\ [][/\ (EntersRun /\ source = "stopping")
               => (it'.pc = "run_raised" /\ it'.invoked = it.invoked)
          /\ (it.pc = "run_blocked" /\ it'.pc # "run_blocked" /\ source = "stopping")
               => (it'.pc = "run_raised" /\ it'.invoked = it.invoked)
          /\ (FuncReturns /\ source = "stopping")
               => (it'.pc = "run_raised" /\ it'.result = "none")
          /\ (it.pc = "run_held" /\ it'.pc # "run_held" /\ source = "stopping")
               => (it'.pc = "run_raised" /\ it'.result = "none")
          /\ it.pc = "run_raised" => it'.pc = "run_raised" /\ it'.invoked = it.invoked
         ]_vars
    /\ [](it.pc = "run_returned" => it.result = "value")

\* the function was invoked, a stop arrived while it ran, and run raised
\* instead of returning the value
C35_Witness ==
    /\ it.pc = "run_raised"
    /\ it.invoked = 1
    /\ it.items_processed = 0
    /\ it.result = "none"
    /\ it.woken = "none"
    /\ it.passed_at_stop = it.passed
    /\ source = "stopping"

\* =========================================================================
\* C36 (as stated): when every call of the upload function and of the
\* callback returns or raises, a call of finish(force=False) returns, also
\* after an exception has escaped the dispatch of a batch.
C36_FinishTerminates ==
    \A c \in Clients : cl[c].in_finish ~> ~cl[c].in_finish

\* =========================================================================
\* the client is inside finish(force=False), its second shutdown call
SecondFinish(c) == nshutdowns = 2 /\ cl[c].in_finish /\ ~cl[c].force

\* C37 (as stated): a call of finish(force=False) made after an earlier
\* abort() or finish() has returned comes back, also when the dispatcher
\* thread is still alive at the call.
C37_FinishAfterShutdownReturns ==
    \A c \in Clients : SecondFinish(c) ~> ~cl[c].in_finish

\* =========================================================================
\* the records of the batches whose dispatch has begun
BegunRecords ==
    Cardinality({<<p, pos>> \in Pages \X (1 .. MaxLen) :
                    /\ p \in begun
                    /\ \E e \in EnqSet : e.page = p /\ pos \in Positions(e)})

C39_DeliveryUndisturbed ==
    (par.pc = "hr_run" /\ par.began = "running") =>
        /\ \A t \in Threads : \A k \in DOMAIN dsp[t].fut :
              dsp[t].fut[k].st \notin {"held", "raised"}
        /\ \A e \in EnqSet : \A pos \in Positions(e) :
              e.page \in done =>
                  counted[e.page][pos] \in {<<"success">>, <<"failed">>, <<"skipped">>}

\* =========================================================================
\* the items passed to _upload_item so far, and the items handed to
\* upload_batch so far, in the order of the calls
Passed == [k \in 1 .. (par.page - 1) |-> k]

RECURSIVE Flatten(_)
Flatten(batches) ==
    IF batches = <<>> THEN <<>> ELSE Head(batches) \o Flatten(Tail(batches))

\* C40: with an uploader set, the items handed to upload_batch followed by
\* the items in the buffer are at any time the items passed to _upload_item,
\* each once and in their order; after _finish_upload all of them have been
\* handed over; the buffer holds fewer than UPLOAD_BATCH_SIZE items after an
\* _upload_item call (when UPLOAD_BATCH_SIZE > 0), and none after
\* _flush_upload_buffer or _finish_upload.
C40_BufferConserves ==
    par.uploader =>
        /\ Flatten(par.handed) \o par.upload_buffer = Passed
        /\ \A k \in 1 .. Len(par.handed) : par.handed[k] # <<>>
        /\ par.pc = "exited" => Flatten(par.handed) = Passed
        /\ (par.last = "item" /\ par.batch_size > 0) =>
              Len(par.upload_buffer) < par.batch_size
        /\ par.last \in {"flush", "finish"} => par.upload_buffer = <<>>

\* three items with UPLOAD_BATCH_SIZE 2: a full batch from _upload_item and
\* the rest from _finish_upload
C40_Witness ==
    /\ par.uploader
    /\ par.pc = "exited"
    /\ par.batch_size = 2
    /\ par.handed = <<<<1, 2>>, <<3>>>>
=========================================================================
